---- MODULE Spec2Model ----
(***************************************************************************)
(* A model of the OpenProdoc MCP server (src/MCP/openprodoc_mcp.py).       *)
(*                                                                         *)
(* A Python str is a sequence of text tokens (a token is a piece of text   *)
(* that is never cut, except at the separators the code splits on, which   *)
(* are tokens of their own: "=", "/", "\n"), concatenation is \o.  None is *)
(* a reserved one-token value.  A dict is a function from its keys, a list *)
(* a sequence, and a JSON value is tagged with its Python type.            *)
(*                                                                         *)
(* A tool is a coroutine: it runs without interruption up to the await of  *)
(* its HTTP request and again from the response to its return.  Each tool  *)
(* is one action for the first stretch and one for each resumption.        *)
(***************************************************************************)
EXTENDS Integers, Sequences, FiniteSets, TLC

VARIABLES
    _auth_token,        \* the session's bearer token, None when logged out
    _base_url,          \* the base URL of the remote service
    _default_username,  \* OPENPRODOC_USERNAME, None when not set
    _default_password,  \* OPENPRODOC_PASSWORD, None when not set
    calls,              \* per invocation slot: the tool call in progress
    fs,                 \* the local files: path -> content
    probe               \* the last application of a pure helper: input and output

vars == <<_auth_token, _base_url, _default_username, _default_password, calls, fs, probe>>

-----------------------------------------------------------------------------
(* Bounds of the model *)

\* the largest number of items of a listing or search answer
MaxItems == 2
\* the largest number of optional fields one update call supplies
MaxSupplied == 1

-----------------------------------------------------------------------------
(* Python values *)

None == <<"$None">>

\* None where a list of dicts is expected
NoneList == <<[None |-> "None"]>>

\* Python truthiness of an Optional[str]
Truthy(s) == s # None /\ s # << >>

\* x or y
Or(x, y) == IF Truthy(x) THEN x ELSE y

\* d.get(k, default) of a dict d
Get(d, k, default) == IF k \in DOMAIN d THEN d[k] ELSE default

\* a dict of one key, and the union of two dicts (the right one wins)
Entry(k, v) == [x \in {k} |-> v]
Merge(d, e) == [x \in DOMAIN d \cup DOMAIN e |-> IF x \in DOMAIN e THEN e[x] ELSE d[x]]
EmptyDict == [x \in {} |-> None]

\* JSON values, tagged by their Python type: d is the dict, l the list
Obj(d) == [t |-> "dict", d |-> d, l |-> << >>]
Arr(s) == [t |-> "list", d |-> EmptyDict, l |-> s]
JNull == [t |-> "NoneType", d |-> EmptyDict, l |-> << >>]

\* the outcome of a stretch of code: a value, or a raised exception
Ret(v) == [ok |-> TRUE, v |-> v]
Raise(cls, msg) == [ok |-> FALSE, e |-> [cls |-> cls, msg |-> msg]]
RaiseStatus(status, body) ==
    [ok |-> FALSE, e |-> [cls |-> "HTTPStatusError", msg |-> <<"status">>,
                          status |-> status, body |-> body]]

\* the exception classes that occur, each with its base classes
Bases(cls) ==
    CASE cls = "HTTPStatusError"  -> {"HTTPStatusError", "HTTPError", "Exception"}
      [] cls = "TimeoutException" -> {"TimeoutException", "TransportError", "HTTPError", "Exception"}
      [] cls = "JSONDecodeError"  -> {"JSONDecodeError", "ValueError", "Exception"}
      [] cls = "ValueError"       -> {"ValueError", "Exception"}
      [] cls = "FileNotFoundError" -> {"FileNotFoundError", "OSError", "Exception"}
      [] cls = "PermissionError"  -> {"PermissionError", "OSError", "Exception"}
      [] cls = "AttributeError"   -> {"AttributeError", "Exception"}
      [] cls = "TypeError"        -> {"TypeError", "Exception"}
      [] OTHER                    -> {cls, "Exception"}

isinstance(e, cls) == cls \in Bases(e.cls)

\* a returned string: text, or the text json.dumps makes of a value
Text(s) == [fmt |-> "text", s |-> s]
Json(v) == [fmt |-> "json", v |-> v]

-----------------------------------------------------------------------------
(* Constants of the program *)

CHARACTER_LIMIT == 25000
DEFAULT_PAGINATION_LIMIT == 200

-----------------------------------------------------------------------------
(* The remote service's answers *)

Timeout == [kind |-> "timeout"]
ConnectError == [kind |-> "error"]
Http(status, ctype, body) == [kind |-> "http", status |-> status, ctype |-> ctype, body |-> body]
\* a body that is not JSON
Bad == [t |-> "bad", d |-> EmptyDict, l |-> << >>]

is_success(status) == status \div 100 = 2

-----------------------------------------------------------------------------
(* Shared utility functions *)

NOT_AUTHENTICATED == <<"Not authenticated.", " Please login first using openprodoc_login.">>

_get_auth_headers_NoCheck(token) ==
    Ret([Authorization |-> <<"Bearer ">> \o token, Accept |-> <<"application/json">>])

\* the headers of an authenticated request, from the token as it is now
_get_auth_headers(token) ==
    IF ~Truthy(token)
    THEN Raise("ValueError", NOT_AUTHENTICATED)
    ELSE Ret([Authorization |-> <<"Bearer ">> \o token, Accept |-> <<"application/json">>])

\* response.json()
response_json(body) ==
    IF body.t = "bad" THEN Raise("JSONDecodeError", <<"Expecting value">>) ELSE Ret(body)

\* _make_api_request from the answer on: the parsed body, or the exception raised
_make_api_request(resp) ==
    CASE resp.kind = "timeout" -> Raise("TimeoutException", <<"timed out">>)
      [] resp.kind = "error"   -> Raise("ConnectError", <<"connection failed">>)
      [] OTHER ->
            IF ~is_success(resp.status) THEN RaiseStatus(resp.status, resp.body)
            ELSE IF resp.ctype # "application/json"
                 THEN Ret(Obj(Entry("binary_content", Get(resp.body.d, "content", << >>))))
                 ELSE response_json(resp.body)

GENERIC_406 == <<"Error: ", "Request not acceptable.",
                 " Check your input data for validation errors or duplicate entries.">>
GENERIC_500 == <<"Error: ", "Internal server error.",
                 " This may be due to invalid query syntax or missing WHERE clause in search queries.">>
INTERNAL == <<"Error: ", "Internal server error - ">>

\* the text of status 406: the remote Msg when the body says KO
handle_406(body) ==
    LET error_data == response_json(body) IN
    IF error_data.ok /\ error_data.v.t = "dict"
       /\ Get(error_data.v.d, "Res", None) = <<"KO">>
    THEN <<"Error: ">> \o Get(error_data.v.d, "Msg", <<"Not Acceptable">>)
    ELSE GENERIC_406

handle_500_OnlyKO(body) ==
    LET error_data == response_json(body) IN
    IF error_data.ok /\ error_data.v.t = "dict"
       /\ Get(error_data.v.d, "Res", None) = <<"KO">>
    THEN INTERNAL \o Get(error_data.v.d, "Msg", <<"Internal server error">>)
    ELSE GENERIC_500

\* the text of status 500: the remote Msg when the body has one
handle_500(body) ==
    LET error_data == response_json(body) IN
    IF error_data.ok /\ error_data.v.t = "dict"
    THEN IF Get(error_data.v.d, "Res", None) = <<"KO">>
         THEN INTERNAL \o Get(error_data.v.d, "Msg", <<"Internal server error">>)
         ELSE IF "Msg" \in DOMAIN error_data.v.d
              THEN INTERNAL \o error_data.v.d["Msg"]
              ELSE GENERIC_500
    ELSE GENERIC_500

status_text(status) == <<"status ", ToString(status)>>

handle_status(e) ==
    CASE e.status = 401 -> <<"Error: ", "Unauthorized.",
                             " Your session may have expired. Please login again using openprodoc_login.">>
      [] e.status = 404 -> <<"Error: ", "Resource not found.",
                             " Please check the ID or path is correct.">>
      [] e.status = 403 -> <<"Error: ", "Permission denied.",
                             " You don't have access to this resource.">>
      [] e.status = 406 -> handle_406(e.body)
      [] e.status = 429 -> <<"Error: ", "Rate limit exceeded.",
                             " Please wait before making more requests.">>
      [] e.status = 500 -> handle_500(e.body)
      [] OTHER -> <<"Error: ", "API request failed with ">> \o status_text(e.status)

\* Consistent error formatting across all tools
_handle_api_error(e) ==
    IF isinstance(e, "HTTPStatusError") THEN Text(handle_status(e))
    ELSE IF isinstance(e, "TimeoutException")
    THEN Text(<<"Error: ", "Request timed out.",
                " The server may be slow or unreachable. Please try again.">>)
    ELSE IF isinstance(e, "ValueError") THEN Text(<<"Error: ">> \o e.msg)
    ELSE Text(<<"Error: ", "Unexpected error occurred: ", e.cls, ": ">> \o e.msg)

\* str(v) of a JSON scalar
str(v) == IF v = None THEN <<"None">> ELSE v

\* the first entry of attrs named attr_name, 0 when there is none (a key is a
\* string of one token)
RECURSIVE FirstNamed(_, _, _)
FirstNamed(attrs, attr_name, i) ==
    IF i > Len(attrs) THEN 0
    ELSE IF Get(attrs[i], "Name", None) = <<attr_name>> THEN i
    ELSE FirstNamed(attrs, attr_name, i + 1)

_extract_attr_value_ListAttr(item, attr_name, default) ==
    IF item.t = "NoneType" THEN Raise("TypeError", <<"argument of type 'NoneType' is not iterable">>)
    ELSE IF item.t # "dict" THEN Raise("AttributeError", <<"'list' object has no attribute 'get'">>)
    ELSE IF attr_name \in DOMAIN item.d THEN Ret(str(item.d[attr_name]))
    ELSE LET attrs == Get(item.d, "Attrs", << >>) \o Get(item.d, "ListAttr", << >>)
             i == FirstNamed(attrs, attr_name, 1)
         IN  IF i = 0 THEN Ret(default)
             ELSE LET values == Get(attrs[i], "Values", << >>)
                  IN  Ret(IF values # << >> THEN values[1] ELSE default)

\* Extract a value from a flat record or from its Attrs array
_extract_attr_value(item, attr_name, default) ==
    IF item.t = "NoneType" THEN Raise("TypeError", <<"argument of type 'NoneType' is not iterable">>)
    ELSE IF item.t # "dict" THEN Raise("AttributeError", <<"'list' object has no attribute 'get'">>)
    ELSE IF attr_name \in DOMAIN item.d THEN Ret(str(item.d[attr_name]))
    ELSE LET attrs == Get(item.d, "Attrs", << >>)
             i == FirstNamed(attrs, attr_name, 1)
         IN  IF i = 0 THEN Ret(default)
             ELSE LET values == Get(attrs[i], "Values", << >>)
                  IN  Ret(IF values # << >> THEN values[1] ELSE default)

-----------------------------------------------------------------------------
(* Response rendering *)

\* "\n".join(lines) and ", ".join(values)
RECURSIVE JoinWith(_, _)
JoinWith(lines, sep) ==
    IF lines = << >> THEN << >>
    ELSE IF Len(lines) = 1 THEN lines[1]
    ELSE lines[1] \o <<sep>> \o JoinWith(Tail(lines), sep)

\* len(s) in characters
RECURSIVE len(_)
len(s) == IF s = << >> THEN 0 ELSE Len(s[1]) + len(Tail(s))

\* s.split(sep): the pieces of s between the separator tokens
RECURSIVE split(_, _)
split(s, sep) ==
    IF \A i \in 1..Len(s) : s[i] # sep THEN <<s>>
    ELSE LET k == CHOOSE i \in 1..Len(s) : s[i] = sep /\ \A j \in 1..(i - 1) : s[j] # sep
         IN  <<SubSeq(s, 1, k - 1)>> \o split(SubSeq(s, k + 1, Len(s)), sep)

\* "=" in msg
HasEq(msg) == \E i \in 1..Len(msg) : msg[i] = "="

\* msg.split("=")[1] if "=" in msg else default
id_from_msg(msg, default) == IF HasEq(msg) THEN split(msg, "=")[2] ELSE default

\* the value a well-formed record yields
Field(item, attr_name, default) == _extract_attr_value(item, attr_name, default).v

\* one "- **name** (type): values" line per custom attribute
RECURSIVE attr_lines(_)
attr_lines(list_attr) ==
    IF list_attr = << >> THEN << >>
    ELSE LET attr == list_attr[1]
         IN  << <<"- **">> \o Get(attr, "Name", <<"Unknown">>) \o <<"** (">>
                 \o Get(attr, "Type", <<"Unknown">>) \o <<"): ">>
                 \o JoinWith(Get(attr, "Values", << >>), ", ") >>
             \o attr_lines(Tail(list_attr))

custom_attributes(rec) ==
    LET list_attr == Get(rec.d, "ListAttr", << >>)
    IN  IF list_attr # << >>
        THEN << << >>, <<"## Custom Attributes">> >> \o attr_lines(list_attr)
        ELSE << >>

\* Format folder data as markdown
_format_folder_markdown(folder) ==
    LET name == _extract_attr_value(folder, "Title", <<"Unknown">>) IN
    IF ~name.ok THEN name
    ELSE Ret(Text(JoinWith(
        << <<"# Folder: ">> \o name.v,
           << >>,
           <<"- **ID**: ">> \o Field(folder, "PDId", <<"N/A">>),
           <<"- **Type**: ">> \o Field(folder, "FolderType", <<"N/A">>),
           <<"- **ACL**: ">> \o Field(folder, "ACL", <<"N/A">>),
           <<"- **Parent ID**: ">> \o Field(folder, "ParentId", <<"N/A">>),
           <<"- **Created**: ">> \o Field(folder, "PDDate", <<"N/A">>),
           <<"- **Author**: ">> \o Field(folder, "PDAutor", <<"N/A">>) >>
        \o custom_attributes(folder), "\n")))

\* Format document metadata as markdown
_format_document_markdown(doc) ==
    LET title == _extract_attr_value(doc, "Title", <<"Unknown">>) IN
    IF ~title.ok THEN title
    ELSE Ret(Text(JoinWith(
        << <<"# Document: ">> \o title.v,
           << >>,
           <<"- **ID**: ">> \o Field(doc, "PDId", <<"N/A">>),
           <<"- **Type**: ">> \o Field(doc, "DocType", <<"N/A">>),
           <<"- **ACL**: ">> \o Field(doc, "ACL", <<"N/A">>),
           <<"- **Parent Folder ID**: ">> \o Field(doc, "ParentId", <<"N/A">>),
           <<"- **Version**: ">> \o Field(doc, "Version", <<"N/A">>),
           <<"- **Document Date**: ">> \o Field(doc, "DocDate", <<"N/A">>),
           <<"- **Created**: ">> \o Field(doc, "PDDate", <<"N/A">>),
           <<"- **Author**: ">> \o Field(doc, "PDAutor", <<"N/A">>) >>
        \o custom_attributes(doc), "\n")))

\* Format thesaurus term as markdown
_format_term_markdown(term) ==
    LET name == _extract_attr_value(term, "Name", <<"Unknown">>) IN
    IF ~name.ok THEN name
    ELSE Ret(Text(JoinWith(
        << <<"# Term: ">> \o name.v,
           << >>,
           <<"- **ID**: ">> \o Field(term, "Id", <<"N/A">>),
           <<"- **Description**: ">> \o Field(term, "Desc", <<"N/A">>),
           <<"- **Language**: ">> \o Field(term, "Lang", <<"N/A">>),
           <<"- **Scope Note**: ">> \o Field(term, "ScopeNote", <<"N/A">>),
           <<"- **Parent ID**: ">> \o Field(term, "ParentId", <<"N/A">>) >>, "\n")))

\* the "- **Attributes**" line of a listed item that has custom attributes
attributes_line(item) ==
    LET list_attr == Get(item, "ListAttr", << >>)
    IN  IF list_attr # << >>
        THEN << <<"- **Attributes**: ", ToString(Len(list_attr)), " custom attributes">> >>
        ELSE << >>

RECURSIVE folder_items(_)
folder_items(folders) ==
    IF folders = << >> THEN << >>
    ELSE LET folder == Obj(folders[1])
         IN  << <<"## ">> \o Field(folder, "Title", <<"Unknown">>) \o <<" (">>
                 \o Field(folder, "PDId", <<"N/A">>) \o <<")">>,
                <<"- **Type**: ">> \o Field(folder, "FolderType", <<"N/A">>),
                <<"- **Created**: ">> \o Field(folder, "PDDate", <<"N/A">>),
                <<"- **Author**: ">> \o Field(folder, "PDAutor", <<"N/A">>) >>
             \o attributes_line(folders[1]) \o << << >> >>
             \o folder_items(Tail(folders))

\* Format list of folders as markdown
_format_folders_list_markdown(folders) ==
    IF folders = << >> THEN <<"No folders found.">>
    ELSE JoinWith(<< <<"# Folders">>,
                     <<"\n", "Showing ", ToString(Len(folders)), " folders">>,
                     << >> >> \o folder_items(folders), "\n")

RECURSIVE document_items(_)
document_items(documents) ==
    IF documents = << >> THEN << >>
    ELSE LET doc == Obj(documents[1])
         IN  << <<"## ">> \o Field(doc, "Title", <<"Unknown">>) \o <<" (">>
                 \o Field(doc, "PDId", <<"N/A">>) \o <<")">>,
                <<"- **Type**: ">> \o Field(doc, "DocType", <<"N/A">>),
                <<"- **Version**: ">> \o Field(doc, "Version", <<"N/A">>),
                <<"- **Created**: ">> \o Field(doc, "PDDate", <<"N/A">>),
                <<"- **Author**: ">> \o Field(doc, "PDAutor", <<"N/A">>) >>
             \o attributes_line(documents[1]) \o << << >> >>
             \o document_items(Tail(documents))

\* Format list of documents as markdown
_format_documents_list_markdown(documents) ==
    IF documents = << >> THEN <<"No documents found.">>
    ELSE JoinWith(<< <<"# Documents">>,
                     <<"\n", "Showing ", ToString(Len(documents)), " documents">>,
                     << >> >> \o document_items(documents), "\n")

RECURSIVE term_items(_)
term_items(terms) ==
    IF terms = << >> THEN << >>
    ELSE LET term == Obj(terms[1])
         IN  << <<"## ">> \o Field(term, "Name", <<"Unknown">>) \o <<" (">>
                 \o Field(term, "Id", <<"N/A">>) \o <<")">>,
                <<"- **Description**: ">> \o Field(term, "Desc", <<"N/A">>),
                <<"- **Language**: ">> \o Field(term, "Lang", <<"N/A">>),
                << >> >>
             \o term_items(Tail(terms))

\* Format list of terms as markdown
_format_terms_list_markdown(terms) ==
    IF terms = << >> THEN <<"No terms found.">>
    ELSE JoinWith(<< <<"# Thesaurus Terms">>,
                     <<"\n", "Showing ", ToString(Len(terms)), " terms">>,
                     << >> >> \o term_items(terms), "\n")

_check_truncation_NoFloor(result, data, item_type) ==
    IF len(result) > CHARACTER_LIMIT
    THEN LET truncated_count == Len(data) \div 2
             result_lines == split(result, "\n")
             estimated_lines == Len(result_lines) \div 2
             truncated_result == JoinWith(SubSeq(result_lines, 1, estimated_lines), "\n")
         IN  truncated_result
             \o <<"\n", "\n", "---", "\n", "**TRUNCATED**", ": Response too large. ",
                  "Showing approximately ", ToString(truncated_count), " of ",
                  ToString(Len(data)), " ", item_type, ". ",
                  "Use pagination parameters (initial/final) or add filters to see more results.">>
    ELSE result

\* Check if response exceeds character limit and truncate if needed
_check_truncation(result, data, item_type) ==
    IF len(result) > CHARACTER_LIMIT
    THEN LET truncated_count == IF Len(data) \div 2 > 1 THEN Len(data) \div 2 ELSE 1
             result_lines == split(result, "\n")
             estimated_lines == Len(result_lines) \div 2
             truncated_result == JoinWith(SubSeq(result_lines, 1, estimated_lines), "\n")
         IN  truncated_result
             \o <<"\n", "\n", "---", "\n", "**TRUNCATED**", ": Response too large. ",
                  "Showing approximately ", ToString(truncated_count), " of ",
                  ToString(Len(data)), " ", item_type, ". ",
                  "Use pagination parameters (initial/final) or add filters to see more results.">>
    ELSE result

\* json.dumps(data, indent=2): bytes are not serializable
json_dumps(data) ==
    IF data.t = "dict" /\ "binary_content" \in DOMAIN data.d /\ data.d["binary_content"] # None
    THEN Raise("TypeError", <<"Object of type bytes is not JSON serializable">>)
    ELSE Ret(Json(data))

\* data.get(...) of what the request returned: only a dict has get
no_get(data) == Raise("AttributeError", <<"'", data.t, "' object has no attribute 'get'">>)

-----------------------------------------------------------------------------
(* Invocation slots and what the caller may pass *)

SeqSlots == {"main"}
AllSlots == {"main", "other"}

URL_DEFAULT == <<"http://localhost:8080/ProdocWeb2/APIRest">>
URL_OTHER == <<"http://other/APIRest">>
TOKEN_A == <<"abc123">>
TOKEN_B == <<"tok2">>

MARKDOWN == "markdown"
JSON == "json"
ResponseFormat == {MARKDOWN, JSON}

\* the remote Msg texts: an identifier after "=", a plain text, an identifier
\* that itself holds "="
MSG_ID == <<"Creado", "=", "id1">>
MSG_PLAIN == <<"Empty_conditions">>
MSG_ID_EQ == <<"Creado", "=", "a", "=", "b">>

ATTR_TEACHER == [Name |-> <<"Teacher">>, Type |-> <<"String">>, Values |-> << <<"Ana">> >>]
\* a record as a fetch returns it (flat) and as a listing returns it (in Attrs)
REC_FLAT == [PDId |-> <<"id1">>, Title |-> <<"X">>, ACL |-> <<"Public">>,
             DocDate |-> <<"2024-01-01">>, ListAttr |-> <<ATTR_TEACHER>>]
REC_ATTRS == [Attrs |-> << [Name |-> <<"PDId">>, Type |-> <<"String">>, Values |-> << <<"id2">> >>],
                           [Name |-> <<"Title">>, Type |-> <<"String">>, Values |-> << >>] >>]

ResultDicts == {
    [Res |-> <<"OK">>, Msg |-> MSG_ID],
    [Res |-> <<"OK">>, Msg |-> MSG_ID_EQ],
    [Res |-> <<"OK">>, Msg |-> MSG_PLAIN],
    [Res |-> <<"OK">>],
    [Res |-> <<"KO">>, Msg |-> MSG_PLAIN],
    [Res |-> <<"KO">>],
    [Msg |-> MSG_PLAIN],
    [Res |-> <<"OK">>, Token |-> TOKEN_A],
    [Res |-> <<"OK">>, Token |-> TOKEN_B],
    [Res |-> <<"KO">>, Token |-> TOKEN_B],
    REC_FLAT,
    REC_ATTRS,
    [binary_content |-> None],
    EmptyDict }

Items == {REC_FLAT, REC_ATTRS}
RECURSIVE SeqsUpTo(_, _)
SeqsUpTo(S, n) ==
    IF n = 0 THEN {<< >>}
    ELSE LET shorter == SeqsUpTo(S, n - 1)
         IN  shorter \cup {Append(q, x) : q \in {r \in shorter : Len(r) = n - 1}, x \in S}

JsonBodies == {Obj(d) : d \in ResultDicts} \cup {Arr(q) : q \in SeqsUpTo(Items, MaxItems)}
              \cup {JNull, Bad}
ErrorBodies == {Bad, Obj([Res |-> <<"KO">>, Msg |-> MSG_PLAIN]), Obj([Res |-> <<"KO">>]),
                Obj([Msg |-> MSG_PLAIN]), Obj(EmptyDict), Arr(<< >>)}
BYTES == [t |-> "bytes", d |-> Entry("content", <<"%PDF">>), l |-> << >>]

\* every outcome of one request
Responses ==
    {Timeout, ConnectError}
    \cup {Http(200, "application/json", b) : b \in JsonBodies}
    \cup {Http(200, "application/octet-stream", BYTES)}
    \cup {Http(st, "text/html", b) : st \in {401, 403, 404, 429, 503}, b \in {Bad, Obj([Res |-> <<"KO">>, Msg |-> MSG_PLAIN])}}
    \cup {Http(st, "application/json", b) : st \in {406, 500}, b \in ErrorBodies}

-----------------------------------------------------------------------------
(* The state of a call *)

APPLICATION_JSON == <<"application/json">>
Idle == [pc |-> "idle", op |-> "none", params |-> EmptyDict, sent |-> << >>,
         resps |-> << >>, result |-> Text(<< >>)]

\* an HTTP request as handed to the client
Request(base, endpoint, method, headers, json_data, params, files, data) ==
    [base |-> base, endpoint |-> endpoint, method |-> method, headers |-> headers,
     json |-> json_data, params |-> params, files |-> files, data |-> data]

\* except Exception as e: return _handle_api_error(e)
ExceptException_Narrow(o) ==
    IF o.ok THEN o
    ELSE IF isinstance(o.e, "HTTPError") \/ isinstance(o.e, "ValueError")
         THEN Ret(_handle_api_error(o.e)) ELSE o

ExceptException(o) ==
    IF o.ok THEN o
    ELSE IF isinstance(o.e, "Exception") THEN Ret(_handle_api_error(o.e)) ELSE o

Await_Retry(c, op, params, req) ==
    calls' = [calls EXCEPT ![c] = [pc |-> "await", op |-> op, params |-> params,
                                   sent |-> <<req, req>>, resps |-> << >>, result |-> Text(<< >>)]]

\* the call in slot c starts tool op and awaits the answer to req
Await(c, op, params, req) ==
    calls' = [calls EXCEPT ![c] = [pc |-> "await", op |-> op, params |-> params,
                                   sent |-> <<req>>, resps |-> << >>, result |-> Text(<< >>)]]

\* the call in slot c ends before any request
EndAtOnce(c, op, params, o) ==
    calls' = [calls EXCEPT ![c] = [pc |-> IF o.ok THEN "done" ELSE "fault", op |-> op,
                                   params |-> params, sent |-> << >>, resps |-> << >>,
                                   result |-> IF o.ok THEN o.v ELSE Text(<< >>)]]

\* the call in slot c ends after the answer resp
End(c, resp, o) ==
    calls' = [calls EXCEPT ![c].pc = IF o.ok THEN "done" ELSE "fault",
                           ![c].resps = Append(@, resp),
                           ![c].result = IF o.ok THEN o.v ELSE Text(<< >>)]

Awaiting(c, op) == calls[c].pc = "await" /\ calls[c].op = op
Session == <<_auth_token, _base_url, _default_username, _default_password>>

-----------------------------------------------------------------------------
(* Authentication tools *)

LoginInput == [username : {None, <<"root">>}, password : {None, <<"secret">>},
               base_url : {None, URL_OTHER}]

MISSING_CREDENTIALS == <<"Error: ", "Username and password are required.",
    " Provide them as parameters or set OPENPRODOC_USERNAME and OPENPRODOC_PASSWORD environment variables.">>

\* openprodoc_login up to the await of its request
openprodoc_login(c) ==
    /\ calls[c].pc = "idle"
    /\ \E params \in LoginInput :
        LET username == Or(params.username, _default_username)
            password == Or(params.password, _default_password)
            base_url == Or(params.base_url, _base_url)
        IN  IF ~Truthy(username) \/ ~Truthy(password)
            THEN /\ EndAtOnce(c, "login", params, Ret(Text(MISSING_CREDENTIALS)))
                 /\ UNCHANGED _base_url
            ELSE /\ _base_url' = base_url
                 /\ Await(c, "login", params,
                          Request(base_url, <<"session">>, "PUT",
                                  Merge(Entry("Content-Type", APPLICATION_JSON), Entry("Accept", APPLICATION_JSON)),
                                  [Name |-> username, Password |-> password],
                                  EmptyDict, EmptyDict, EmptyDict))
    /\ UNCHANGED <<_auth_token, _default_username, _default_password, fs, probe>>

\* client.put, raise_for_status and response.json() of the login
login_response(resp) ==
    CASE resp.kind = "timeout" -> Raise("TimeoutException", <<"timed out">>)
      [] resp.kind = "error"   -> Raise("ConnectError", <<"connection failed">>)
      [] OTHER ->
            IF ~is_success(resp.status) THEN RaiseStatus(resp.status, resp.body)
            ELSE IF resp.body.t \in {"bad", "bytes"}
                 THEN Raise("JSONDecodeError", <<"Expecting value">>)
                 ELSE Ret(resp.body)

login_accepts_AnyToken(data) == "Token" \in DOMAIN data

\* does the login answer carry a token to store
login_accepts(data) == Get(data, "Res", None) = <<"OK">> /\ "Token" \in DOMAIN data

login_token_Bearer(data) == <<"Bearer ">> \o data["Token"]

\* _auth_token = data["Token"]
login_token(data) == data["Token"]

\* openprodoc_login from the answer on
openprodoc_login_resume(c) ==
    /\ Awaiting(c, "login")
    /\ \E resp \in Responses :
        LET params == calls[c].params
            username == Or(params.username, _default_username)
            got == login_response(resp)
            data == got.v
        IN  IF ~got.ok THEN
                /\ End(c, resp, ExceptException(got))
                /\ UNCHANGED _auth_token
            ELSE IF data.t # "dict" THEN
                /\ End(c, resp, ExceptException(
                        Raise("AttributeError", <<"'", data.t, "' object has no attribute 'get'">>)))
                /\ UNCHANGED _auth_token
            ELSE IF login_accepts(data.d) THEN
                /\ _auth_token' = login_token(data.d)
                /\ End(c, resp, Ret(Text(<<"Successfully logged in to OpenProdoc as ">> \o username
                                          \o <<". Token is valid for 24 hours.">>)))
            ELSE
                /\ End(c, resp, Ret(Text(<<"Error: ", "Login failed. ">>
                                          \o str(Get(data.d, "Msg", <<"Unknown error">>)))))
                /\ UNCHANGED _auth_token
    /\ UNCHANGED <<_base_url, _default_username, _default_password, fs, probe>>

NO_SESSION == <<"Error: ", "Not authenticated.", " No active session to close.">>

\* openprodoc_logout up to the await of its request
openprodoc_logout(c) ==
    /\ calls[c].pc = "idle"
    /\ IF ~Truthy(_auth_token)
       THEN /\ EndAtOnce(c, "logout", EmptyDict, Ret(Text(NO_SESSION)))
            /\ UNCHANGED _auth_token
       ELSE LET headers == _get_auth_headers(_auth_token) IN
            IF headers.ok
            THEN /\ Await(c, "logout", EmptyDict,
                          Request(_base_url, <<"session">>, "DELETE", headers.v,
                                  EmptyDict, EmptyDict, EmptyDict, EmptyDict))
                 /\ UNCHANGED _auth_token
            ELSE /\ _auth_token' = None
                 /\ EndAtOnce(c, "logout", EmptyDict, ExceptException(headers))
    /\ UNCHANGED <<_base_url, _default_username, _default_password, fs, probe>>

\* what logout leaves in the token on each of its ways out
logout_token_after_Keep(o) == IF o.ok THEN None ELSE _auth_token
logout_token_after(o) == None

\* openprodoc_logout from the answer on
openprodoc_logout_resume(c) ==
    /\ Awaiting(c, "logout")
    /\ \E resp \in Responses :
        LET got == _make_api_request(resp)
            data == got.v
            o == IF ~got.ok THEN got
                 ELSE IF data.t # "dict"
                      THEN Raise("AttributeError", <<"'", data.t, "' object has no attribute 'get'">>)
                 ELSE IF Get(data.d, "Res", None) = <<"OK">>
                      THEN Ret(Text(<<"Successfully logged out from OpenProdoc.">>))
                 ELSE Ret(Text(<<"Session closed (with message: ">>
                               \o str(Get(data.d, "Msg", <<"Unknown">>)) \o <<")">>))
        IN  /\ _auth_token' = logout_token_after(got)
            /\ End(c, resp, ExceptException(o))
    /\ UNCHANGED <<_base_url, _default_username, _default_password, fs, probe>>

\* headers = _get_auth_headers(), then the await of _make_api_request: the
\* request goes out with the token as it is now, or the call ends unauthenticated
SendAuthed(c, op, params, endpoint, method, extra_headers, json_data, query, files, data) ==
    LET headers == _get_auth_headers(_auth_token) IN
    IF headers.ok
    THEN Await(c, op, params,
               Request(_base_url, endpoint, method, Merge(headers.v, extra_headers),
                       json_data, query, files, data))
    ELSE EndAtOnce(c, op, params, ExceptException(headers))

CONTENT_JSON == Entry("Content-Type", APPLICATION_JSON)

\* return f"Error: {data.get('Msg', 'Unknown error')}"
error_msg(data) == Ret(Text(<<"Error: ">> \o str(Get(data.d, "Msg", <<"Unknown error">>))))

\* "Key": value only when the field was supplied
Supplied(key, value) == IF value # None THEN Entry(key, value) ELSE EmptyDict
Named(name, value) == IF value # None THEN <<name>> ELSE << >>
SuppliedList(key, value) == IF value # NoneList THEN Entry(key, value) ELSE EmptyDict
NamedList(name, value) == IF value # NoneList THEN <<name>> ELSE << >>

\* the pagination window as query parameters
window_params(params) ==
    [Initial |-> <<ToString(params.initial)>>, Final |-> <<ToString(params.final)>>]

-----------------------------------------------------------------------------
(* Folder tools *)

F1 == <<"f1">>
PATH_A == <<"/", "a">>
PATH_A_SLASH == <<"/", "a", "/">>

\* folder_id and folder_path as the caller passes them: folder_path None is
\* the field left out, << >> is the field passed empty
FolderIdents == [folder_id : {None, F1}, folder_path : {None, << >>, PATH_A, PATH_A_SLASH}]

\* the field validator of folder_path: it runs only on a supplied folder_path
validate_identifiers(p) ==
    p.folder_path = None \/ Truthy(p.folder_id) \/ Truthy(p.folder_path)

DEFAULT_WINDOW == [initial |-> 0, final |-> DEFAULT_PAGINATION_LIMIT]
Windows == {DEFAULT_WINDOW, [initial |-> 2, final |-> 1], [initial |-> 1, final |-> 1]}

\* path.endswith('/')
endswith_slash(path) == path # << >> /\ path[Len(path)] = "/"

\* path if path.endswith('/') else f"{path}/"
with_slash(path) == IF endswith_slash(path) THEN path ELSE path \o <<"/">>

EITHER_REQUIRED == <<"Error: ", "Either folder_id or folder_path must be provided">>

\* the endpoint of a folder addressed by id or by path, None when by neither
folder_endpoint_NoPrecedence(params, by_id, by_path, normalize) ==
    IF Truthy(params.folder_path)
    THEN <<by_path>> \o (IF normalize THEN with_slash(params.folder_path) ELSE params.folder_path)
    ELSE IF Truthy(params.folder_id) THEN <<by_id>> \o params.folder_id
    ELSE None

folder_endpoint(params, by_id, by_path, normalize) ==
    IF Truthy(params.folder_id) THEN <<by_id>> \o params.folder_id
    ELSE IF Truthy(params.folder_path)
    THEN <<by_path>> \o (IF normalize THEN with_slash(params.folder_path) ELSE params.folder_path)
    ELSE None

CreateFolderInput ==
    [name : {<<"Docs">>}, folder_type : {<<"PD_FOLDERS">>}, parent_id : {None, << >>, <<"p1">>},
     parent_path : {None, PATH_A}, acl : {<<"Public">>}, attributes : {<< >>},
     response_format : ResponseFormat]

create_folder_body_NoRoot(params) ==
    Merge([Id |-> << >>, Name |-> params.name, ACL |-> params.acl,
           Type |-> params.folder_type, ListAttr |-> params.attributes],
          IF Truthy(params.parent_id)
          THEN [Idparent |-> params.parent_id, PathParent |-> << >>]
          ELSE IF Truthy(params.parent_path)
          THEN [Idparent |-> << >>, PathParent |-> params.parent_path]
          ELSE [Idparent |-> << >>, PathParent |-> <<"/">>])

create_folder_body_Both(params) ==
    Merge([Id |-> << >>, Name |-> params.name, ACL |-> params.acl,
           Type |-> params.folder_type, ListAttr |-> params.attributes],
          IF Truthy(params.parent_id)
          THEN [Idparent |-> params.parent_id,
                PathParent |-> IF Truthy(params.parent_path) THEN params.parent_path ELSE << >>]
          ELSE IF Truthy(params.parent_path)
          THEN [Idparent |-> << >>, PathParent |-> params.parent_path]
          ELSE [Idparent |-> <<"RootFolder">>, PathParent |-> << >>])

create_folder_body(params) ==
    Merge([Id |-> << >>, Name |-> params.name, ACL |-> params.acl,
           Type |-> params.folder_type, ListAttr |-> params.attributes],
          IF Truthy(params.parent_id)
          THEN [Idparent |-> params.parent_id, PathParent |-> << >>]
          ELSE IF Truthy(params.parent_path)
          THEN [Idparent |-> << >>, PathParent |-> params.parent_path]
          ELSE [Idparent |-> <<"RootFolder">>, PathParent |-> << >>])

openprodoc_create_folder(c) ==
    /\ calls[c].pc = "idle"
    /\ \E params \in CreateFolderInput :
        SendAuthed(c, "create_folder", params, <<"folders">>, "POST", CONTENT_JSON,
                   create_folder_body(params), EmptyDict, EmptyDict, EmptyDict)
    /\ UNCHANGED <<Session, fs, probe>>

create_folder_result(params, got) ==
    IF ~got.ok THEN got
    ELSE IF got.v.t # "dict" THEN no_get(got.v)
    ELSE IF Get(got.v.d, "Res", None) = <<"OK">>
    THEN LET folder_id == id_from_msg(Get(got.v.d, "Msg", << >>), <<"Unknown">>) IN
         IF params.response_format = MARKDOWN
         THEN Ret(Text(JoinWith(
                << <<"# Folder Created Successfully">>, << >>,
                   <<"- **Folder ID**: ">> \o folder_id,
                   <<"- **Name**: ">> \o params.name,
                   <<"- **Type**: ">> \o params.folder_type >>
                \o (IF Truthy(params.parent_id)
                    THEN << <<"- **Parent ID**: ">> \o params.parent_id >>
                    ELSE IF Truthy(params.parent_path)
                    THEN << <<"- **Parent Path**: ">> \o params.parent_path >>
                    ELSE << >>), "\n")))
         ELSE Ret(Json(Obj([status |-> <<"success">>, folder_id |-> folder_id,
                            name |-> params.name, type |-> params.folder_type])))
    ELSE error_msg(got.v)

openprodoc_create_folder_resume(c) ==
    /\ Awaiting(c, "create_folder")
    /\ \E resp \in Responses :
        End(c, resp, ExceptException(create_folder_result(calls[c].params, _make_api_request(resp))))
    /\ UNCHANGED <<Session, fs, probe>>

GetFolderInput ==
    {Merge(i, [response_format |-> f]) : i \in {x \in FolderIdents : validate_identifiers(x)},
                                         f \in ResponseFormat}

openprodoc_get_folder(c) ==
    /\ calls[c].pc = "idle"
    /\ \E params \in GetFolderInput :
        LET endpoint == folder_endpoint(params, "folders/ById/", "folders/ByPath", TRUE) IN
        IF endpoint = None
        THEN EndAtOnce(c, "get_folder", params, Ret(Text(EITHER_REQUIRED)))
        ELSE SendAuthed(c, "get_folder", params, endpoint, "GET", EmptyDict,
                        EmptyDict, EmptyDict, EmptyDict, EmptyDict)
    /\ UNCHANGED <<Session, fs, probe>>

get_folder_result(params, got) ==
    IF ~got.ok THEN got
    ELSE IF params.response_format = MARKDOWN THEN _format_folder_markdown(got.v)
    ELSE json_dumps(got.v)

openprodoc_get_folder_resume(c) ==
    /\ Awaiting(c, "get_folder")
    /\ \E resp \in Responses :
        End(c, resp, ExceptException(get_folder_result(calls[c].params, _make_api_request(resp))))
    /\ UNCHANGED <<Session, fs, probe>>

\* the update fields in full on one folder, and every way of addressing the
\* folder with one field
UpdateFolderFields ==
    [name : {None, <<"New">>}, acl : {None, <<"Private">>},
     attributes : {NoneList, << >>, <<ATTR_TEACHER>>}]
UpdateFolderInput ==
    {Merge(Merge(i, u), [response_format |-> f]) :
        i \in {x \in FolderIdents : validate_identifiers(x)},
        u \in {y \in UpdateFolderFields : y.attributes = NoneList},
        f \in {MARKDOWN}}
    \cup {Merge(Merge([folder_id |-> F1, folder_path |-> None], u), [response_format |-> f]) :
        u \in UpdateFolderFields, f \in ResponseFormat}

NO_FOLDER_FIELDS == <<"Error: ", "No fields to update.",
                      " Provide at least one of: name, acl, or attributes.">>

update_folder_body_Full(params) ==
    [Name |-> params.name, ACL |-> params.acl, ListAttr |-> params.attributes]

update_folder_body(params) ==
    Merge(Merge(Supplied("Name", params.name), Supplied("ACL", params.acl)),
          SuppliedList("ListAttr", params.attributes))
update_folder_fields(params) ==
    Named("name", params.name) \o Named("acl", params.acl) \o NamedList("attributes", params.attributes)

openprodoc_update_folder(c) ==
    /\ calls[c].pc = "idle"
    /\ \E params \in UpdateFolderInput :
        LET body == update_folder_body(params)
            endpoint == folder_endpoint(params, "folders/ById/", "folders/ByPath", TRUE)
        IN  IF body = EmptyDict
            THEN EndAtOnce(c, "update_folder", params, Ret(Text(NO_FOLDER_FIELDS)))
            ELSE IF endpoint = None
            THEN EndAtOnce(c, "update_folder", params, Ret(Text(EITHER_REQUIRED)))
            ELSE SendAuthed(c, "update_folder", params, endpoint, "PUT", CONTENT_JSON,
                            body, EmptyDict, EmptyDict, EmptyDict)
    /\ UNCHANGED <<Session, fs, probe>>

update_folder_result(params, got) ==
    IF ~got.ok THEN got
    ELSE IF got.v.t # "dict" THEN no_get(got.v)
    ELSE IF Get(got.v.d, "Res", None) = <<"OK">>
    THEN LET folder_id == id_from_msg(Get(got.v.d, "Msg", << >>), <<"Unknown">>) IN
         IF params.response_format = MARKDOWN
         THEN Ret(Text(JoinWith(
                << <<"# Folder Updated Successfully">>, << >>,
                   <<"- **Folder ID**: ">> \o folder_id,
                   <<"- **Updated Fields**: ">>
                      \o JoinWith([i \in 1..Len(update_folder_fields(params)) |->
                                      <<update_folder_fields(params)[i]>>], ", ") >>, "\n")))
         ELSE Ret(Json(Obj([status |-> <<"success">>, folder_id |-> folder_id,
                            updated_fields |-> update_folder_fields(params)])))
    ELSE error_msg(got.v)

openprodoc_update_folder_resume(c) ==
    /\ Awaiting(c, "update_folder")
    /\ \E resp \in Responses :
        End(c, resp, ExceptException(update_folder_result(calls[c].params, _make_api_request(resp))))
    /\ UNCHANGED <<Session, fs, probe>>

DeleteFolderInput == {x \in FolderIdents : validate_identifiers(x)}

openprodoc_delete_folder(c) ==
    /\ calls[c].pc = "idle"
    /\ \E params \in DeleteFolderInput :
        LET endpoint == folder_endpoint(params, "folders/ById/", "folders/ByPath", TRUE) IN
        IF endpoint = None
        THEN EndAtOnce(c, "delete_folder", params, Ret(Text(EITHER_REQUIRED)))
        ELSE SendAuthed(c, "delete_folder", params, endpoint, "DELETE", EmptyDict,
                        EmptyDict, EmptyDict, EmptyDict, EmptyDict)
    /\ UNCHANGED <<Session, fs, probe>>

delete_folder_result(params, got) ==
    IF ~got.ok THEN got
    ELSE IF got.v.t # "dict" THEN no_get(got.v)
    ELSE IF Get(got.v.d, "Res", None) = <<"OK">>
    THEN LET identifier == IF Truthy(params.folder_id) THEN params.folder_id ELSE params.folder_path
         IN  Ret(Text(<<"Successfully deleted folder: ">>
                      \o id_from_msg(Get(got.v.d, "Msg", << >>), identifier)))
    ELSE error_msg(got.v)

openprodoc_delete_folder_resume(c) ==
    /\ Awaiting(c, "delete_folder")
    /\ \E resp \in Responses :
        End(c, resp, ExceptException(delete_folder_result(calls[c].params, _make_api_request(resp))))
    /\ UNCHANGED <<Session, fs, probe>>

\* every way of addressing the folder with the default window, and every
\* window on one folder
ListInput ==
    {Merge(Merge(i, DEFAULT_WINDOW), [response_format |-> f]) :
        i \in {x \in FolderIdents : validate_identifiers(x)}, f \in ResponseFormat}
    \cup {Merge(Merge([folder_id |-> F1, folder_path |-> None], w), [response_format |-> f]) :
        w \in Windows, f \in ResponseFormat}

\* data if isinstance(data, list) else []
as_list(data) == IF data.t = "list" THEN data.l ELSE << >>

openprodoc_list_subfolders(c) ==
    /\ calls[c].pc = "idle"
    /\ \E params \in ListInput :
        LET endpoint == folder_endpoint(params, "folders/SubFoldersById/", "folders/SubFoldersByPath", FALSE)
        IN  IF endpoint = None
            THEN EndAtOnce(c, "list_subfolders", params, Ret(Text(EITHER_REQUIRED)))
            ELSE SendAuthed(c, "list_subfolders", params, endpoint, "GET", EmptyDict,
                            EmptyDict, window_params(params), EmptyDict, EmptyDict)
    /\ UNCHANGED <<Session, fs, probe>>

list_subfolders_result(params, got) ==
    IF ~got.ok THEN got
    ELSE LET folders == as_list(got.v) IN
         IF params.response_format = MARKDOWN
         THEN Ret(Text(_check_truncation(_format_folders_list_markdown(folders), folders, "folders")))
         ELSE Ret(Json(Obj([count |-> Len(folders), initial |-> params.initial,
                            final |-> params.final, folders |-> folders])))

openprodoc_list_subfolders_resume(c) ==
    /\ Awaiting(c, "list_subfolders")
    /\ \E resp \in Responses :
        End(c, resp, ExceptException(list_subfolders_result(calls[c].params, _make_api_request(resp))))
    /\ UNCHANGED <<Session, fs, probe>>

openprodoc_list_documents_in_folder(c) ==
    /\ calls[c].pc = "idle"
    /\ \E params \in ListInput :
        LET endpoint == folder_endpoint(params, "folders/ContDocsById/", "folders/ContDocsByPath", FALSE)
        IN  IF endpoint = None
            THEN EndAtOnce(c, "list_documents_in_folder", params, Ret(Text(EITHER_REQUIRED)))
            ELSE SendAuthed(c, "list_documents_in_folder", params, endpoint, "GET", EmptyDict,
                            EmptyDict, window_params(params), EmptyDict, EmptyDict)
    /\ UNCHANGED <<Session, fs, probe>>

list_documents_result(params, got) ==
    IF ~got.ok THEN got
    ELSE LET documents == as_list(got.v) IN
         IF params.response_format = MARKDOWN
         THEN Ret(Text(_check_truncation(_format_documents_list_markdown(documents), documents, "documents")))
         ELSE Ret(Json(Obj([count |-> Len(documents), initial |-> params.initial,
                            final |-> params.final, documents |-> documents])))

openprodoc_list_documents_in_folder_resume(c) ==
    /\ Awaiting(c, "list_documents_in_folder")
    /\ \E resp \in Responses :
        End(c, resp, ExceptException(list_documents_result(calls[c].params, _make_api_request(resp))))
    /\ UNCHANGED <<Session, fs, probe>>

QUERY == <<"Select * from PD_FOLDERS where PDId<>''">>
SearchInput == {Merge([query |-> QUERY, response_format |-> f], w) : w \in Windows, f \in ResponseFormat}

search_body(params) ==
    [Query |-> params.query, Initial |-> <<ToString(params.initial)>>,
     Final |-> <<ToString(params.final)>>]

openprodoc_search_folders(c) ==
    /\ calls[c].pc = "idle"
    /\ \E params \in SearchInput :
        SendAuthed(c, "search_folders", params, <<"folders/Search">>, "POST", CONTENT_JSON,
                   search_body(params), EmptyDict, EmptyDict, EmptyDict)
    /\ UNCHANGED <<Session, fs, probe>>

search_folders_result_NoEmpty(params, got) ==
    IF ~got.ok THEN got
    ELSE LET folders == as_list(got.v) IN
         IF params.response_format = MARKDOWN
         THEN Ret(Text(_check_truncation(_format_folders_list_markdown(folders), folders, "folders")))
         ELSE Ret(Json(Obj([count |-> Len(folders), query |-> params.query,
                            initial |-> params.initial, final |-> params.final,
                            folders |-> folders])))

search_folders_result(params, got) ==
    IF ~got.ok THEN got
    ELSE LET folders == as_list(got.v) IN
         IF folders = << >> THEN Ret(Text(<<"No folders found matching your query.">>))
         ELSE IF params.response_format = MARKDOWN
         THEN Ret(Text(_check_truncation(_format_folders_list_markdown(folders), folders, "folders")))
         ELSE Ret(Json(Obj([count |-> Len(folders), query |-> params.query,
                            initial |-> params.initial, final |-> params.final,
                            folders |-> folders])))

openprodoc_search_folders_resume(c) ==
    /\ Awaiting(c, "search_folders")
    /\ \E resp \in Responses :
        End(c, resp, ExceptException(search_folders_result(calls[c].params, _make_api_request(resp))))
    /\ UNCHANGED <<Session, fs, probe>>

-----------------------------------------------------------------------------
(* Document tools *)

D1 == <<"d1">>
IN_PDF == <<"/", "tmp", "/", "in.pdf">>
MISSING_PDF == <<"/", "tmp", "/", "missing.pdf">>
OUT_PDF == <<"/", "tmp", "/", "out.pdf">>
OUT_NODIR == <<"/", "nodir", "/", "out.pdf">>
\* the directories a file can be created in
WritablePaths == {OUT_PDF}
\* datetime.now().strftime("%Y-%m-%d")
TODAY == <<"2026-01-15">>

\* os.path.basename(path)
basename(path) == LET parts == split(path, "/") IN parts[Len(parts)]

\* open(path, "rb").read()
read_file(path) ==
    IF path \in DOMAIN fs THEN Ret(fs[path])
    ELSE Raise("FileNotFoundError", <<"[Errno 2] No such file or directory: ">> \o path)

\* except FileNotFoundError: return f"Error: File not found at path: {params.file_path}"
ExceptFileNotFound(params, o) ==
    IF ~o.ok /\ isinstance(o.e, "FileNotFoundError")
    THEN Ret(Text(<<"Error: ", "File not found at path: ">> \o params.file_path))
    ELSE o

GetDocumentInput == [document_id : {D1}, response_format : ResponseFormat]

openprodoc_get_document_metadata(c) ==
    /\ calls[c].pc = "idle"
    /\ \E params \in GetDocumentInput :
        SendAuthed(c, "get_document_metadata", params, <<"documents/ById/">> \o params.document_id,
                   "GET", EmptyDict, EmptyDict, EmptyDict, EmptyDict, EmptyDict)
    /\ UNCHANGED <<Session, fs, probe>>

get_document_result(params, got) ==
    IF ~got.ok THEN got
    ELSE IF params.response_format = MARKDOWN THEN _format_document_markdown(got.v)
    ELSE json_dumps(got.v)

openprodoc_get_document_metadata_resume(c) ==
    /\ Awaiting(c, "get_document_metadata")
    /\ \E resp \in Responses :
        End(c, resp, ExceptException(get_document_result(calls[c].params, _make_api_request(resp))))
    /\ UNCHANGED <<Session, fs, probe>>

DownloadDocumentInput == [document_id : {D1}, output_path : {OUT_PDF, OUT_NODIR}]

openprodoc_download_document(c) ==
    /\ calls[c].pc = "idle"
    /\ \E params \in DownloadDocumentInput :
        SendAuthed(c, "download_document", params, <<"documents/ContentById/">> \o params.document_id,
                   "GET", Entry("Accept", <<"application/octet-stream">>),
                   EmptyDict, EmptyDict, EmptyDict, EmptyDict)
    /\ UNCHANGED <<Session, fs, probe>>

\* is the answer the binary payload the download writes
has_binary_content(data) == data.t = "dict" /\ "binary_content" \in DOMAIN data.d

\* openprodoc_download_document from the answer on: open(output_path, "wb")
\* leaves an empty file when f.write(content) refuses the content
openprodoc_download_document_resume(c) ==
    /\ Awaiting(c, "download_document")
    /\ \E resp \in Responses :
        LET params == calls[c].params
            got == _make_api_request(resp)
        IN  IF ~got.ok THEN
                /\ End(c, resp, ExceptException(got))
                /\ UNCHANGED fs
            ELSE IF got.v.t = "NoneType" THEN
                /\ End(c, resp, ExceptException(
                        Raise("TypeError", <<"argument of type 'NoneType' is not iterable">>)))
                /\ UNCHANGED fs
            ELSE IF has_binary_content(got.v) THEN
                IF params.output_path \in WritablePaths
                THEN IF got.v.d["binary_content"] = None
                     THEN /\ fs' = Merge(fs, Entry(params.output_path, << >>))
                          /\ End(c, resp, ExceptException(
                                Raise("TypeError", <<"a bytes-like object is required, not 'NoneType'">>)))
                     ELSE /\ fs' = Merge(fs, Entry(params.output_path, got.v.d["binary_content"]))
                          /\ End(c, resp, Ret(Text(<<"Successfully downloaded document to ">>
                                               \o params.output_path \o <<" (Size: ", "0.00", " MB)">>)))
                ELSE /\ UNCHANGED fs
                     /\ End(c, resp, ExceptException(
                            Raise("FileNotFoundError", <<"[Errno 2] No such file or directory: ">>
                                                       \o params.output_path)))
            ELSE
                /\ End(c, resp, Ret(Text(<<"Error: ", "No binary content received from server.">>)))
                /\ UNCHANGED fs
    /\ UNCHANGED <<Session, probe>>

DeleteDocumentInput == [document_id : {D1}]

openprodoc_delete_document(c) ==
    /\ calls[c].pc = "idle"
    /\ \E params \in DeleteDocumentInput :
        SendAuthed(c, "delete_document", params, <<"documents/ById/">> \o params.document_id,
                   "DELETE", EmptyDict, EmptyDict, EmptyDict, EmptyDict, EmptyDict)
    /\ UNCHANGED <<Session, fs, probe>>

delete_document_result(params, got) ==
    IF ~got.ok THEN got
    ELSE IF got.v.t # "dict" THEN no_get(got.v)
    ELSE IF Get(got.v.d, "Res", None) = <<"OK">>
    THEN Ret(Text(<<"Successfully deleted document: ">>
                  \o id_from_msg(Get(got.v.d, "Msg", << >>), params.document_id)))
    ELSE error_msg(got.v)

openprodoc_delete_document_resume(c) ==
    /\ Awaiting(c, "delete_document")
    /\ \E resp \in Responses :
        End(c, resp, ExceptException(delete_document_result(calls[c].params, _make_api_request(resp))))
    /\ UNCHANGED <<Session, fs, probe>>

\* doc_date None is the field left out: its default_factory gives today
UploadDocumentInput ==
    [file_path : {IN_PDF, MISSING_PDF}, title : {<<"Report">>}, document_type : {<<"PD_DOCS">>},
     parent_folder_id : {F1}, acl : {<<"Public">>}, version_label : {<<"1.0">>},
     doc_date : {None, <<"2024-05-01">>, << >>}, attributes : {<< >>},
     response_format : ResponseFormat]

\* the doc_date field of the input model
upload_doc_date(params) == IF params.doc_date = None THEN TODAY ELSE params.doc_date

upload_metadata(params) ==
    [Title |-> params.title, ACL |-> params.acl, Idparent |-> params.parent_folder_id,
     Type |-> params.document_type, VerLabel |-> params.version_label,
     DocDate |-> upload_doc_date(params), ListAttr |-> params.attributes]

\* openprodoc_upload_document up to the await: the file is read first
openprodoc_upload_document(c) ==
    /\ calls[c].pc = "idle"
    /\ \E params \in UploadDocumentInput :
        LET file_content == read_file(params.file_path) IN
        IF ~file_content.ok
        THEN EndAtOnce(c, "upload_document", params,
                       ExceptException(ExceptFileNotFound(params, file_content)))
        ELSE SendAuthed(c, "upload_document", params, <<"documents">>, "POST", EmptyDict,
                        EmptyDict, EmptyDict,
                        [Binary |-> <<basename(params.file_path), file_content.v>>],
                        [Metadata |-> upload_metadata(params)])
    /\ UNCHANGED <<Session, fs, probe>>

NO_DETAILS == <<"API returned an error without details.",
    " This may indicate missing required fields (e.g., DocDate) or invalid data.">>

upload_document_result(params, got) ==
    IF ~got.ok THEN got
    ELSE IF got.v.t # "dict" THEN no_get(got.v)
    ELSE IF Get(got.v.d, "Res", None) = <<"OK">>
    THEN LET doc_id == id_from_msg(Get(got.v.d, "Msg", << >>), <<"Unknown">>) IN
         IF params.response_format = MARKDOWN
         THEN Ret(Text(JoinWith(
                << <<"# Document Uploaded Successfully">>, << >>,
                   <<"- **Document ID**: ">> \o doc_id,
                   <<"- **Title**: ">> \o params.title,
                   <<"- **Type**: ">> \o params.document_type,
                   <<"- **Version**: ">> \o params.version_label,
                   <<"- **Parent Folder**: ">> \o params.parent_folder_id >>, "\n")))
         ELSE Ret(Json(Obj([status |-> <<"success">>, document_id |-> doc_id,
                            title |-> params.title, type |-> params.document_type,
                            version |-> params.version_label])))
    ELSE LET error_text == Get(got.v.d, "Msg", <<"Unknown error">>) IN
         Ret(Text(<<"Error: ">> \o (IF ~Truthy(error_text) THEN NO_DETAILS ELSE error_text)))

openprodoc_upload_document_resume(c) ==
    /\ Awaiting(c, "upload_document")
    /\ \E resp \in Responses :
        End(c, resp, ExceptException(ExceptFileNotFound(calls[c].params,
                upload_document_result(calls[c].params, _make_api_request(resp)))))
    /\ UNCHANGED <<Session, fs, probe>>

\* the optional fields of a document update, in the order the code reads them
UpdateDocumentFields ==
    <<"title", "document_type", "parent_folder_id", "acl", "version_label",
      "doc_date", "author", "pd_date">>
UpdateDocumentAll ==
    [document_id : {D1}, file_path : {None, IN_PDF, MISSING_PDF},
     title : {None, <<"New title">>}, document_type : {None, <<"ECM_Standards">>},
     parent_folder_id : {None, <<"f2">>}, acl : {None, <<"Private">>},
     version_label : {None, <<"2.0">>}, doc_date : {None, <<"2025-01-15">>},
     author : {None, <<"john_doe">>}, pd_date : {None, <<"2025-01-15 10:00:00">>},
     attributes : {NoneList, <<ATTR_TEACHER>>}, response_format : ResponseFormat]

\* how many optional fields the caller supplies
supplied_count(params) ==
    Cardinality({i \in 1..Len(UpdateDocumentFields) : params[UpdateDocumentFields[i]] # None})
    + (IF params.attributes # NoneList THEN 1 ELSE 0)
    + (IF params.file_path # None THEN 1 ELSE 0)

UpdateDocumentInput ==
    {p \in UpdateDocumentAll :
        /\ supplied_count(p) <= MaxSupplied
        /\ p.response_format = JSON => p.title # None \/ supplied_count(p) = 0}

COULD_NOT_RETRIEVE == <<"Error: ", "Could not retrieve existing document metadata.",
                        " Document may not exist.">>
NO_DOCUMENT_FIELDS == <<"Error: ", "No fields to update.",
    " Provide at least one of: file_path, title, document_type, parent_folder_id, acl, version_label, doc_date, author, pd_date, or attributes.">>

\* _get_document_metadata_raw up to the await: None when there is no token
\* openprodoc_update_document up to the await of the fetch
openprodoc_update_document(c) ==
    /\ calls[c].pc = "idle"
    /\ \E params \in UpdateDocumentInput :
        LET headers == _get_auth_headers(_auth_token) IN
        IF headers.ok
        THEN Await(c, "update_document", params,
                   Request(_base_url, <<"documents/ById/">> \o params.document_id, "GET",
                           headers.v, EmptyDict, EmptyDict, EmptyDict, EmptyDict))
        ELSE EndAtOnce(c, "update_document", params, Ret(Text(COULD_NOT_RETRIEVE)))
    /\ UNCHANGED <<Session, fs, probe>>

_get_document_metadata_raw_Default(resp) ==
    LET got == _make_api_request(resp) IN IF got.ok THEN got.v ELSE Obj([Title |-> << >>])

\* _get_document_metadata_raw from the answer on: the record, or None on any exception
_get_document_metadata_raw(resp) ==
    LET got == _make_api_request(resp) IN IF got.ok THEN got.v ELSE JNull

\* not existing_doc
falsy(data) ==
    \/ data.t = "NoneType"
    \/ data.t = "dict" /\ data.d = EmptyDict
    \/ data.t = "list" /\ data.l = << >>

update_metadata_Sparse(params, existing_doc) ==
    [Title |-> IF params.title # None THEN params.title ELSE << >>,
     ACL |-> IF params.acl # None THEN params.acl ELSE <<"Public">>,
     Idparent |-> IF params.parent_folder_id # None THEN params.parent_folder_id ELSE << >>,
     Type |-> IF params.document_type # None THEN params.document_type ELSE << >>,
     VerLabel |-> IF params.version_label # None THEN params.version_label ELSE <<"1.0">>,
     DocDate |-> IF params.doc_date # None THEN params.doc_date ELSE << >>,
     PDDate |-> IF params.pd_date # None THEN params.pd_date ELSE << >>,
     PDAuthor |-> IF params.author # None THEN params.author ELSE << >>,
     ListAttr |-> IF params.attributes # NoneList THEN params.attributes ELSE << >>]

\* the metadata of the update: the fetched record, overridden by what was supplied
update_metadata(params, existing_doc) ==
    [Title |-> IF params.title # None THEN params.title ELSE Get(existing_doc, "Title", << >>),
     ACL |-> IF params.acl # None THEN params.acl ELSE Get(existing_doc, "ACL", <<"Public">>),
     Idparent |-> IF params.parent_folder_id # None THEN params.parent_folder_id
                  ELSE Get(existing_doc, "ParentId", << >>),
     Type |-> IF params.document_type # None THEN params.document_type
              ELSE Get(existing_doc, "Type", << >>),
     VerLabel |-> IF params.version_label # None THEN params.version_label
                  ELSE Get(existing_doc, "VerLabel", <<"1.0">>),
     DocDate |-> IF params.doc_date # None THEN params.doc_date
                 ELSE Get(existing_doc, "DocDate", << >>),
     PDDate |-> IF params.pd_date # None THEN params.pd_date
                ELSE Get(existing_doc, "PDDate", << >>),
     PDAuthor |-> IF params.author # None THEN params.author
                  ELSE Get(existing_doc, "PDAuthor", << >>),
     ListAttr |-> IF params.attributes # NoneList THEN params.attributes
                  ELSE Get(existing_doc, "ListAttr", << >>)]

update_document_fields(params) ==
    Named("title", params.title) \o Named("document_type", params.document_type)
    \o Named("parent_folder_id", params.parent_folder_id) \o Named("acl", params.acl)
    \o Named("version_label", params.version_label) \o Named("doc_date", params.doc_date)
    \o Named("author", params.author) \o Named("pd_date", params.pd_date)
    \o NamedList("attributes", params.attributes)

\* openprodoc_update_document from the answer to the fetch up to the await of the PUT
openprodoc_update_document_fetched(c) ==
    /\ Awaiting(c, "update_document")
    /\ Len(calls[c].sent) = 1
    /\ \E resp \in Responses :
        LET params == calls[c].params
            existing_doc == _get_document_metadata_raw(resp)
            headers == _get_auth_headers(_auth_token)
            file_content == read_file(params.file_path)
            endpoint == <<"documents/ById/">> \o params.document_id
        IN  IF falsy(existing_doc) THEN End(c, resp, Ret(Text(COULD_NOT_RETRIEVE)))
            ELSE IF existing_doc.t # "dict" THEN End(c, resp, ExceptException(no_get(existing_doc)))
            ELSE IF update_document_fields(params) = << >> /\ ~Truthy(params.file_path)
            THEN End(c, resp, Ret(Text(NO_DOCUMENT_FIELDS)))
            ELSE IF ~headers.ok THEN End(c, resp, ExceptException(headers))
            ELSE IF Truthy(params.file_path)
            THEN IF ~file_content.ok
                 THEN End(c, resp, ExceptException(ExceptFileNotFound(params, file_content)))
                 ELSE calls' = [calls EXCEPT ![c].resps = Append(@, resp),
                        ![c].sent = Append(@, Request(_base_url, endpoint, "PUT", headers.v,
                            EmptyDict, EmptyDict,
                            [Binary |-> <<basename(params.file_path), file_content.v>>],
                            [Metadata |-> update_metadata(params, existing_doc.d)]))]
            ELSE calls' = [calls EXCEPT ![c].resps = Append(@, resp),
                        ![c].sent = Append(@, Request(_base_url, endpoint, "PUT",
                            Merge(headers.v, CONTENT_JSON), EmptyDict, EmptyDict, EmptyDict,
                            [Metadata |-> update_metadata(params, existing_doc.d)]))]
    /\ UNCHANGED <<Session, fs, probe>>

update_document_result(params, got) ==
    IF ~got.ok THEN got
    ELSE IF got.v.t # "dict" THEN no_get(got.v)
    ELSE IF Get(got.v.d, "Res", None) = <<"OK">>
    THEN LET doc_id == id_from_msg(Get(got.v.d, "Msg", << >>), params.document_id)
             updated_fields == update_document_fields(params)
                               \o (IF Truthy(params.file_path) THEN <<"binary">> ELSE << >>)
         IN  IF params.response_format = MARKDOWN
             THEN Ret(Text(JoinWith(
                    << <<"# Document Updated Successfully">>, << >>,
                       <<"- **Document ID**: ">> \o doc_id,
                       <<"- **Updated Fields**: ">>
                          \o JoinWith([i \in 1..Len(updated_fields) |-> <<updated_fields[i]>>], ", ")
                    >>, "\n")))
             ELSE Ret(Json(Obj([status |-> <<"success">>, document_id |-> doc_id,
                                updated_fields |-> updated_fields])))
    ELSE error_msg(got.v)

\* openprodoc_update_document from the answer to the PUT on
openprodoc_update_document_resume(c) ==
    /\ Awaiting(c, "update_document")
    /\ Len(calls[c].sent) = 2
    /\ \E resp \in Responses :
        End(c, resp, ExceptException(ExceptFileNotFound(calls[c].params,
                update_document_result(calls[c].params, _make_api_request(resp)))))
    /\ UNCHANGED <<Session, fs, probe>>

openprodoc_search_documents(c) ==
    /\ calls[c].pc = "idle"
    /\ \E params \in SearchInput :
        SendAuthed(c, "search_documents", params, <<"documents/Search">>, "POST", CONTENT_JSON,
                   search_body(params), EmptyDict, EmptyDict, EmptyDict)
    /\ UNCHANGED <<Session, fs, probe>>

search_documents_result(params, got) ==
    IF ~got.ok THEN got
    ELSE LET documents == as_list(got.v) IN
         IF documents = << >> THEN Ret(Text(<<"No documents found matching your query.">>))
         ELSE IF params.response_format = MARKDOWN
         THEN Ret(Text(_check_truncation(_format_documents_list_markdown(documents), documents, "documents")))
         ELSE Ret(Json(Obj([count |-> Len(documents), query |-> params.query,
                            initial |-> params.initial, final |-> params.final,
                            documents |-> documents])))

openprodoc_search_documents_resume(c) ==
    /\ Awaiting(c, "search_documents")
    /\ \E resp \in Responses :
        End(c, resp, ExceptException(search_documents_result(calls[c].params, _make_api_request(resp))))
    /\ UNCHANGED <<Session, fs, probe>>

-----------------------------------------------------------------------------
(* Thesaurus tools *)

T1 == <<"t1">>

CreateTermInput ==
    [name : {<<"Teacher">>}, description : {<<"A person who teaches">>}, language : {<<"EN">>},
     scope_note : {None, <<"note">>}, parent_id : {None, <<"t0">>},
     response_format : ResponseFormat]

create_term_body(params) ==
    Merge(Merge([Name |-> params.name, Descrip |-> params.description, Lang |-> params.language],
                IF Truthy(params.scope_note) THEN Entry("SCN", params.scope_note) ELSE EmptyDict),
          IF Truthy(params.parent_id) THEN Entry("ParentId", params.parent_id) ELSE EmptyDict)

openprodoc_create_term(c) ==
    /\ calls[c].pc = "idle"
    /\ \E params \in CreateTermInput :
        SendAuthed(c, "create_term", params, <<"thesauri">>, "POST", CONTENT_JSON,
                   create_term_body(params), EmptyDict, EmptyDict, EmptyDict)
    /\ UNCHANGED <<Session, fs, probe>>

create_term_result(params, got) ==
    IF ~got.ok THEN got
    ELSE IF got.v.t # "dict" THEN no_get(got.v)
    ELSE IF Get(got.v.d, "Res", None) = <<"OK">>
    THEN LET term_id == id_from_msg(Get(got.v.d, "Msg", << >>), <<"Unknown">>) IN
         IF params.response_format = MARKDOWN
         THEN Ret(Text(JoinWith(
                << <<"# Thesaurus Term Created Successfully">>, << >>,
                   <<"- **Term ID**: ">> \o term_id,
                   <<"- **Name**: ">> \o params.name,
                   <<"- **Language**: ">> \o params.language >>
                \o (IF Truthy(params.parent_id)
                    THEN << <<"- **Parent ID**: ">> \o params.parent_id >>
                    ELSE << >>), "\n")))
         ELSE Ret(Json(Obj([status |-> <<"success">>, term_id |-> term_id,
                            name |-> params.name, language |-> params.language])))
    ELSE error_msg(got.v)

openprodoc_create_term_resume(c) ==
    /\ Awaiting(c, "create_term")
    /\ \E resp \in Responses :
        End(c, resp, ExceptException(create_term_result(calls[c].params, _make_api_request(resp))))
    /\ UNCHANGED <<Session, fs, probe>>

GetTermInput == [term_id : {T1}, response_format : ResponseFormat]

openprodoc_get_term(c) ==
    /\ calls[c].pc = "idle"
    /\ \E params \in GetTermInput :
        SendAuthed(c, "get_term", params, <<"thesauri/ById/">> \o params.term_id,
                   "GET", EmptyDict, EmptyDict, EmptyDict, EmptyDict, EmptyDict)
    /\ UNCHANGED <<Session, fs, probe>>

get_term_result(params, got) ==
    IF ~got.ok THEN got
    ELSE IF params.response_format = MARKDOWN THEN _format_term_markdown(got.v)
    ELSE json_dumps(got.v)

openprodoc_get_term_resume(c) ==
    /\ Awaiting(c, "get_term")
    /\ \E resp \in Responses :
        End(c, resp, ExceptException(get_term_result(calls[c].params, _make_api_request(resp))))
    /\ UNCHANGED <<Session, fs, probe>>

\* every choice of update fields in markdown, two of them in JSON
UpdateTermInput ==
    {p \in [term_id : {T1}, name : {None, <<"Professor">>}, description : {None, <<"Senior">>},
            language : {None, <<"ES">>}, scope_note : {None, <<"note">>},
            response_format : ResponseFormat] :
        p.response_format = JSON => p.description = None /\ p.language = None /\ p.scope_note = None}

NO_TERM_FIELDS == <<"Error: ", "No fields to update.",
                    " Provide at least one of: name, description, language, or scope_note.">>

update_term_body(params) ==
    Merge(Merge(Supplied("Name", params.name), Supplied("Descrip", params.description)),
          Merge(Supplied("Lang", params.language), Supplied("SCN", params.scope_note)))
update_term_fields(params) ==
    Named("name", params.name) \o Named("description", params.description)
    \o Named("language", params.language) \o Named("scope_note", params.scope_note)

openprodoc_update_term(c) ==
    /\ calls[c].pc = "idle"
    /\ \E params \in UpdateTermInput :
        LET body == update_term_body(params) IN
        IF body = EmptyDict
        THEN EndAtOnce(c, "update_term", params, Ret(Text(NO_TERM_FIELDS)))
        ELSE SendAuthed(c, "update_term", params, <<"thesauri/ById/">> \o params.term_id,
                        "PUT", CONTENT_JSON, body, EmptyDict, EmptyDict, EmptyDict)
    /\ UNCHANGED <<Session, fs, probe>>

update_term_result(params, got) ==
    IF ~got.ok THEN got
    ELSE IF got.v.t # "dict" THEN no_get(got.v)
    ELSE IF Get(got.v.d, "Res", None) = <<"OK">>
    THEN LET term_id == id_from_msg(Get(got.v.d, "Msg", << >>), params.term_id) IN
         IF params.response_format = MARKDOWN
         THEN Ret(Text(JoinWith(
                << <<"# Thesaurus Term Updated Successfully">>, << >>,
                   <<"- **Term ID**: ">> \o term_id,
                   <<"- **Updated Fields**: ">>
                      \o JoinWith([i \in 1..Len(update_term_fields(params)) |->
                                      <<update_term_fields(params)[i]>>], ", ") >>, "\n")))
         ELSE Ret(Json(Obj([status |-> <<"success">>, term_id |-> term_id,
                            updated_fields |-> update_term_fields(params)])))
    ELSE error_msg(got.v)

openprodoc_update_term_resume(c) ==
    /\ Awaiting(c, "update_term")
    /\ \E resp \in Responses :
        End(c, resp, ExceptException(update_term_result(calls[c].params, _make_api_request(resp))))
    /\ UNCHANGED <<Session, fs, probe>>

DeleteTermInput == [term_id : {T1}]

openprodoc_delete_term(c) ==
    /\ calls[c].pc = "idle"
    /\ \E params \in DeleteTermInput :
        SendAuthed(c, "delete_term", params, <<"thesauri/ById/">> \o params.term_id,
                   "DELETE", EmptyDict, EmptyDict, EmptyDict, EmptyDict, EmptyDict)
    /\ UNCHANGED <<Session, fs, probe>>

delete_term_result(params, got) ==
    IF ~got.ok THEN got
    ELSE IF got.v.t # "dict" THEN no_get(got.v)
    ELSE IF Get(got.v.d, "Res", None) = <<"OK">>
    THEN Ret(Text(<<"Successfully deleted thesaurus term: ">>
                  \o id_from_msg(Get(got.v.d, "Msg", << >>), params.term_id)))
    ELSE error_msg(got.v)

openprodoc_delete_term_resume(c) ==
    /\ Awaiting(c, "delete_term")
    /\ \E resp \in Responses :
        End(c, resp, ExceptException(delete_term_result(calls[c].params, _make_api_request(resp))))
    /\ UNCHANGED <<Session, fs, probe>>

ListSubtermsInput ==
    {Merge([parent_term_id |-> T1, response_format |-> f], w) : w \in Windows, f \in ResponseFormat}

openprodoc_list_subterms(c) ==
    /\ calls[c].pc = "idle"
    /\ \E params \in ListSubtermsInput :
        SendAuthed(c, "list_subterms", params, <<"thesauri/SubThesById/">> \o params.parent_term_id,
                   "GET", EmptyDict, EmptyDict, window_params(params), EmptyDict, EmptyDict)
    /\ UNCHANGED <<Session, fs, probe>>

list_subterms_result(params, got) ==
    IF ~got.ok THEN got
    ELSE LET terms == as_list(got.v) IN
         IF params.response_format = MARKDOWN
         THEN Ret(Text(_check_truncation(_format_terms_list_markdown(terms), terms, "terms")))
         ELSE Ret(Json(Obj([count |-> Len(terms), parent_term_id |-> params.parent_term_id,
                            initial |-> params.initial, final |-> params.final,
                            terms |-> terms])))

openprodoc_list_subterms_resume(c) ==
    /\ Awaiting(c, "list_subterms")
    /\ \E resp \in Responses :
        End(c, resp, ExceptException(list_subterms_result(calls[c].params, _make_api_request(resp))))
    /\ UNCHANGED <<Session, fs, probe>>

openprodoc_search_terms(c) ==
    /\ calls[c].pc = "idle"
    /\ \E params \in SearchInput :
        SendAuthed(c, "search_terms", params, <<"thesauri/Search">>, "POST", CONTENT_JSON,
                   search_body(params), EmptyDict, EmptyDict, EmptyDict)
    /\ UNCHANGED <<Session, fs, probe>>

search_terms_result(params, got) ==
    IF ~got.ok THEN got
    ELSE LET terms == as_list(got.v) IN
         IF terms = << >> THEN Ret(Text(<<"No terms found matching your query.">>))
         ELSE IF params.response_format = MARKDOWN
         THEN Ret(Text(_check_truncation(_format_terms_list_markdown(terms), terms, "terms")))
         ELSE Ret(Json(Obj([count |-> Len(terms), query |-> params.query,
                            initial |-> params.initial, final |-> params.final,
                            terms |-> terms])))

openprodoc_search_terms_resume(c) ==
    /\ Awaiting(c, "search_terms")
    /\ \E resp \in Responses :
        End(c, resp, ExceptException(search_terms_result(calls[c].params, _make_api_request(resp))))
    /\ UNCHANGED <<Session, fs, probe>>

\* the identifier-bearing folder tools
FolderOps == {"get_folder", "update_folder", "delete_folder", "list_subfolders",
              "list_documents_in_folder"}

\* the input model refuses the arguments: the tool does not run
InputRejected(c) ==
    /\ calls[c].pc = "idle"
    /\ \E op \in FolderOps, params \in FolderIdents :
        /\ ~validate_identifiers(params)
        /\ calls' = [calls EXCEPT ![c] = [Idle EXCEPT !.pc = "rejected", !.op = op, !.params = params]]
    /\ UNCHANGED <<Session, fs, probe>>

\* the caller takes the result; the slot is free again
Return(c) ==
    /\ calls[c].pc \in {"done", "fault", "rejected"}
    /\ calls' = [calls EXCEPT ![c] = Idle]
    /\ UNCHANGED <<_auth_token, _base_url, _default_username, _default_password, fs, probe>>

-----------------------------------------------------------------------------
(* The specification *)

\* the environment at startup: no default credentials, or both
Environments == {<<None, None>>, <<<<"envuser">>, <<"envpass">>>>}

Init ==
    /\ _auth_token = None
    /\ _base_url = URL_DEFAULT
    /\ \E env \in Environments :
        /\ _default_username = env[1]
        /\ _default_password = env[2]
    /\ calls = [c \in AllSlots |-> Idle]
    /\ fs = [x \in {IN_PDF} |-> <<"%PDF">>]
    /\ probe = << >>

Next ==
    \E c \in SeqSlots :
        \/ openprodoc_login(c)
        \/ openprodoc_login_resume(c)
        \/ openprodoc_logout(c)
        \/ openprodoc_logout_resume(c)
        \/ openprodoc_create_folder(c)
        \/ openprodoc_create_folder_resume(c)
        \/ openprodoc_get_folder(c)
        \/ openprodoc_get_folder_resume(c)
        \/ openprodoc_update_folder(c)
        \/ openprodoc_update_folder_resume(c)
        \/ openprodoc_delete_folder(c)
        \/ openprodoc_delete_folder_resume(c)
        \/ openprodoc_list_subfolders(c)
        \/ openprodoc_list_subfolders_resume(c)
        \/ openprodoc_list_documents_in_folder(c)
        \/ openprodoc_list_documents_in_folder_resume(c)
        \/ openprodoc_search_folders(c)
        \/ openprodoc_search_folders_resume(c)
        \/ openprodoc_get_document_metadata(c)
        \/ openprodoc_get_document_metadata_resume(c)
        \/ openprodoc_download_document(c)
        \/ openprodoc_download_document_resume(c)
        \/ openprodoc_delete_document(c)
        \/ openprodoc_delete_document_resume(c)
        \/ openprodoc_upload_document(c)
        \/ openprodoc_upload_document_resume(c)
        \/ openprodoc_update_document(c)
        \/ openprodoc_update_document_fetched(c)
        \/ openprodoc_update_document_resume(c)
        \/ openprodoc_search_documents(c)
        \/ openprodoc_search_documents_resume(c)
        \/ openprodoc_create_term(c)
        \/ openprodoc_create_term_resume(c)
        \/ openprodoc_get_term(c)
        \/ openprodoc_get_term_resume(c)
        \/ openprodoc_update_term(c)
        \/ openprodoc_update_term_resume(c)
        \/ openprodoc_delete_term(c)
        \/ openprodoc_delete_term_resume(c)
        \/ openprodoc_list_subterms(c)
        \/ openprodoc_list_subterms_resume(c)
        \/ openprodoc_search_terms(c)
        \/ openprodoc_search_terms_resume(c)
        \/ InputRejected(c)
        \/ Return(c)

Spec == Init /\ [][Next]_vars

\* login and logout calls of two callers, interleaved at their awaits
NextSessions ==
    \E c \in AllSlots :
        \/ openprodoc_login(c)
        \/ openprodoc_login_resume(c)
        \/ openprodoc_logout(c)
        \/ openprodoc_logout_resume(c)
        \/ Return(c)

SpecSessions == Init /\ [][NextSessions]_vars


-----------------------------------------------------------------------------
(* Two remote services, each issuing its own token *)

\* the token the service at base issues
TokenOf(base) == IF base = URL_DEFAULT THEN TOKEN_A ELSE TOKEN_B

\* the login of slot c, when it is granted a token, is granted the token of
\* the service it was sent to
IssuedByBase(c) ==
    (calls[c].op = "login" /\ calls[c].pc = "await" /\ calls'[c].pc # "await") =>
        LET got == login_response(calls'[c].resps[1]) IN
        (got.ok /\ got.v.t = "dict" /\ login_accepts(got.v.d))
            => login_token(got.v.d) = TokenOf(calls[c].sent[1].base)

NextIssuer == Next /\ \A c \in SeqSlots : IssuedByBase(c)

SpecIssuer == Init /\ [][NextIssuer]_vars

-----------------------------------------------------------------------------
(* One login on its own *)

\* one login call in a session that may hold a token and either base URL;
\* probe keeps the session as it was before the call
LoginInit ==
    /\ \E token \in {None, TOKEN_A}, base_url \in {URL_DEFAULT, URL_OTHER} :
        /\ _auth_token = token
        /\ _base_url = base_url
        /\ probe = [stage |-> "before", _auth_token |-> token, _base_url |-> base_url]
    /\ \E env \in Environments :
        /\ _default_username = env[1]
        /\ _default_password = env[2]
    /\ calls = [c \in AllSlots |-> Idle]
    /\ fs = [x \in {IN_PDF} |-> <<"%PDF">>]

NextLogin ==
    \E c \in SeqSlots :
        \/ openprodoc_login(c)
        \/ openprodoc_login_resume(c)

SpecLogin == LoginInit /\ [][NextLogin]_vars

-----------------------------------------------------------------------------
(* A document update beside the session tools of another invocation *)

\* the answers of the remote service in this setting: none, a granted token
\* of either kind, a document record, a plain acknowledgement
RaceAnswers ==
    {Timeout,
     Http(200, "application/json", Obj([Res |-> <<"OK">>, Token |-> TOKEN_A])),
     Http(200, "application/json", Obj([Res |-> <<"OK">>, Token |-> TOKEN_B])),
     Http(200, "application/json", Obj(REC_FLAT)),
     Http(200, "application/json", Obj([Res |-> <<"OK">>]))}

\* the updates asked for in this setting: a new title or nothing
RaceUpdates ==
    {p \in UpdateDocumentInput : supplied_count(p) = (IF p.title # None THEN 1 ELSE 0)}

\* the step stays within these answers and these updates
InRace ==
    /\ \A c \in AllSlots : \A i \in 1..Len(calls'[c].resps) : calls'[c].resps[i] \in RaceAnswers
    /\ calls'["main"].pc # "idle" => calls'["main"].params \in RaceUpdates

\* the event loop runs one document update in one invocation while another
\* invocation logs in and out: each await of the update lets the other run
NextUpdateRace ==
    \/ openprodoc_update_document("main") /\ InRace
    \/ openprodoc_update_document_fetched("main") /\ InRace
    \/ openprodoc_update_document_resume("main") /\ InRace
    \/ openprodoc_login("other") /\ InRace
    \/ openprodoc_login_resume("other") /\ InRace
    \/ openprodoc_logout("other") /\ InRace
    \/ openprodoc_logout_resume("other") /\ InRace
    \/ Return("other")

SpecUpdateRace == Init /\ [][NextUpdateRace]_vars

-----------------------------------------------------------------------------
(* Attribute extraction on its own *)

\* one entry of an Attrs or ListAttr array
AttrEntry(name, values) == [Name |-> <<name>>, Type |-> <<"String">>, Values |-> values]

\* what a record holds under the flat key Title, in Attrs and in ListAttr
FlatParts == {EmptyDict, Entry("Title", <<"flat">>), Entry("Title", None)}
AttrsParts ==
    {EmptyDict} \cup
    {Entry("Attrs", a) : a \in {
        << >>,
        <<AttrEntry("Title", << >>)>>,
        <<AttrEntry("Title", << <<"first">>, <<"second">> >>)>>,
        <<AttrEntry("Title", << >>), AttrEntry("Title", << <<"later">> >>)>>,
        <<AttrEntry("PDId", << <<"id2">> >>), AttrEntry("Title", << <<"listed">> >>)>>,
        <<[Type |-> <<"String">>], AttrEntry("PDId", << <<"id3">> >>), [Name |-> <<"Title">>]>> }}
ListAttrParts == {EmptyDict, Entry("ListAttr", <<AttrEntry("Title", << <<"custom">> >>)>>),
                  Entry("ListAttr", <<AttrEntry("PDId", << <<"id4">> >>)>>)}
ProbeRecords == {Merge(Merge(f, a), l) : f \in FlatParts, a \in AttrsParts, l \in ListAttrParts}
ProbeNames == {"Title", "PDId"}
ProbeDefaults == {<<"N/A">>, <<"Unknown">>}

ProbeInit ==
    /\ _auth_token = None
    /\ _base_url = URL_DEFAULT
    /\ _default_username = None
    /\ _default_password = None
    /\ calls = [c \in AllSlots |-> Idle]
    /\ fs = [x \in {IN_PDF} |-> <<"%PDF">>]
    /\ \E item \in ProbeRecords, attr_name \in ProbeNames, default \in ProbeDefaults :
        probe = [stage |-> "input", item |-> item, attr_name |-> attr_name,
                 default |-> default, result |-> Ret(None)]

\* one application of _extract_attr_value to the drawn record
Extract ==
    /\ probe.stage = "input"
    /\ probe' = [probe EXCEPT !.stage = "output",
                    !.result = _extract_attr_value(Obj(probe.item), probe.attr_name, probe.default)]
    /\ UNCHANGED <<Session, calls, fs>>

SpecExtract == ProbeInit /\ [][Extract]_vars


-----------------------------------------------------------------------------
(* Truncation on its own *)

\* the text s repeated n times
RECURSIVE Repeat(_, _)
Repeat(s, n) ==
    IF n = 0 THEN ""
    ELSE IF n % 2 = 0 THEN LET half == Repeat(s, n \div 2) IN half \o half
    ELSE s \o Repeat(s, n - 1)

\* a field value as long as the whole character budget
LONG_TEXT == Repeat("x", CHARACTER_LIMIT)

\* listed items: short ones, one whose heading is long, one whose last line is long
REC_LONG_FIRST == [PDId |-> <<"id3">>, Id |-> <<"id3">>, Title |-> <<LONG_TEXT>>,
                   Name |-> <<LONG_TEXT>>]
REC_LONG_LAST == [PDId |-> <<"id4">>, Id |-> <<"id4">>, Title |-> <<"Y">>, Name |-> <<"Y">>,
                  PDAutor |-> <<LONG_TEXT>>, Lang |-> <<LONG_TEXT>>]
ListedItems == {REC_FLAT, REC_ATTRS, REC_LONG_FIRST, REC_LONG_LAST}
ItemTypes == {"folders", "documents", "terms"}

\* the markdown report of a listing of the given kind
rendered(items, item_type) ==
    CASE item_type = "folders" -> _format_folders_list_markdown(items)
      [] item_type = "documents" -> _format_documents_list_markdown(items)
      [] OTHER -> _format_terms_list_markdown(items)

TruncateInit ==
    /\ _auth_token = None
    /\ _base_url = URL_DEFAULT
    /\ _default_username = None
    /\ _default_password = None
    /\ calls = [c \in AllSlots |-> Idle]
    /\ fs = [x \in {IN_PDF} |-> <<"%PDF">>]
    /\ \E items \in SeqsUpTo(ListedItems, MaxItems), item_type \in ItemTypes :
        probe = [stage |-> "rendered", data |-> items, item_type |-> item_type,
                 result |-> rendered(items, item_type), returned |-> << >>]

\* return _check_truncation(result, folders, "folders") of a listing tool
Truncate ==
    /\ probe.stage = "rendered"
    /\ probe' = [probe EXCEPT !.stage = "returned",
                    !.returned = _check_truncation(probe.result, probe.data, probe.item_type)]
    /\ UNCHANGED <<Session, calls, fs>>

SpecTruncate == TruncateInit /\ [][Truncate]_vars

-----------------------------------------------------------------------------
(* Properties: sessions, arguments and faults *)

\* the result is the Unauthenticated error text
IsNotAuthenticated(result) ==
    result.fmt = "text" /\ Len(result.s) >= 2
    /\ result.s[1] = "Error: " /\ result.s[2] = "Not authenticated."

\* the arguments of the call are complete: a folder is identified, an update
\* names a field, a file to send exists
ValidArguments(call) ==
    /\ call.op \in FolderOps =>
            Truthy(call.params.folder_id) \/ Truthy(call.params.folder_path)
    /\ call.op = "update_folder" => update_folder_body(call.params) # EmptyDict
    /\ call.op = "update_term" => update_term_body(call.params) # EmptyDict
    /\ call.op = "update_document" =>
            update_document_fields(call.params) # << >> \/ Truthy(call.params.file_path)
    /\ call.op \in {"upload_document", "update_document"} =>
            call.params.file_path = None \/ call.params.file_path \in DOMAIN fs

\* C1: every tool except login, started with complete arguments while the
\* session token is empty, ends at once with the Unauthenticated error text
\* ('Error: Not authenticated. ...'), never with another text or a success.
C1_Unauthenticated ==
    [][\A c \in AllSlots :
        (/\ calls[c].pc = "idle"
         /\ calls'[c].pc \notin {"idle", "rejected"}
         /\ calls'[c].op # "login"
         /\ ~Truthy(_auth_token)
         /\ ValidArguments(calls'[c]))
        => (calls'[c].pc = "done" /\ IsNotAuthenticated(calls'[c].result))]_vars

UpdateOps == {"update_folder", "update_document", "update_term"}

\* the call supplies none of the optional update fields of its tool
NoUpdateFields(call) ==
    CASE call.op = "update_folder" -> update_folder_fields(call.params) = << >>
      [] call.op = "update_term" -> update_term_fields(call.params) = << >>
      [] call.op = "update_document" ->
            update_document_fields(call.params) = << >> /\ call.params.file_path = None
      [] OTHER -> FALSE

NoFieldsErrors == {Text(NO_FOLDER_FIELDS), Text(NO_DOCUMENT_FIELDS), Text(NO_TERM_FIELDS)}

\* C2: an update call (folder, document, term) that supplies no optional
\* update field sends no request at all and, made within a session, ends
\* with the validation error 'Error: No fields to update. ...'.
C2_NoFieldsNoRequest ==
    \A c \in AllSlots :
        (calls[c].pc \notin {"idle", "rejected"} /\ NoUpdateFields(calls[c]))
        => /\ calls[c].sent = << >>
           /\ (calls[c].pc = "done" /\ Truthy(_auth_token))
                => calls[c].result \in NoFieldsErrors

BothSet(params) == Truthy(params.folder_id) /\ Truthy(params.folder_path)
BothUnset(params) == ~Truthy(params.folder_id) /\ ~Truthy(params.folder_path)

\* the call was refused for its arguments: by the input model, or by the tool
\* with a validation error text
IsValidationError(call) ==
    \/ call.pc = "rejected"
    \/ call.pc = "done" /\ call.result \in {Text(EITHER_REQUIRED), Text(NO_FOLDER_FIELDS)}

\* C3 as the spec states it: a folder call with both folder_id and
\* folder_path set, or with both unset, sends no request and, made within a
\* session, is refused with a validation error.
C3_ExactlyOne ==
    \A c \in AllSlots :
        (/\ calls[c].pc # "idle"
         /\ calls[c].op \in FolderOps
         /\ BothSet(calls[c].params) \/ BothUnset(calls[c].params))
        => /\ calls[c].sent = << >>
           /\ Truthy(_auth_token) => IsValidationError(calls[c])

ByIdPrefixes == {"folders/ById/", "folders/SubFoldersById/", "folders/ContDocsById/"}
ByPathPrefixes == {"folders/ByPath", "folders/SubFoldersByPath", "folders/ContDocsByPath"}

\* C3 as amended: at least one of folder_id and folder_path must be set. A
\* folder call with both unset is refused with a validation error and sends
\* no request; a call with both set is accepted, and every request of a call
\* with folder_id set addresses the folder by that id, folder_path being
\* used only when folder_id is not set.
C3_AtLeastOne ==
    \A c \in AllSlots :
        (calls[c].pc # "idle" /\ calls[c].op \in FolderOps)
        => LET call == calls[c] IN
           /\ BothUnset(call.params) => (call.sent = << >> /\ IsValidationError(call))
           /\ \A i \in 1..Len(call.sent) :
                IF Truthy(call.params.folder_id)
                THEN \E prefix \in ByIdPrefixes :
                        call.sent[i].endpoint = <<prefix>> \o call.params.folder_id
                ELSE call.sent[i].endpoint[1] \in ByPathPrefixes

\* a folder call with both identifiers set has its request out
C3_Witness ==
    \E c \in AllSlots :
        /\ calls[c].op \in FolderOps
        /\ BothSet(calls[c].params)
        /\ Len(calls[c].sent) = 1

\* C4: after any logout call has returned, whatever the remote answered
\* (OK, KO, a non-2xx status, a timeout), the session token is empty.
C4_LogoutClearsToken ==
    \A c \in AllSlots :
        (calls[c].op = "logout" /\ calls[c].pc \in {"done", "fault"})
        => _auth_token = None

\* a logout whose request timed out or was answered with a non-2xx status has returned
C4_Witness ==
    \E c \in AllSlots :
        /\ calls[c].op = "logout"
        /\ calls[c].pc = "done"
        /\ Len(calls[c].resps) = 1
        /\ \/ calls[c].resps[1].kind = "timeout"
           \/ calls[c].resps[1].kind = "http" /\ ~is_success(calls[c].resps[1].status)

\* C5: no call ends in an unhandled fault, and every call that has ended
\* hands the caller a string (a text or a JSON text), whatever the remote
\* answered and whether or not a local file was there.
C5_AlwaysAString ==
    \A c \in AllSlots :
        /\ calls[c].pc # "fault"
        /\ calls[c].pc = "done" => calls[c].result.fmt \in {"text", "json"}

\* a tool that reads a JSON object got a JSON array and has returned
C5_Witness ==
    \E c \in AllSlots :
        /\ calls[c].pc = "done"
        /\ calls[c].op \in {"create_folder", "delete_document", "update_term"}
        /\ Len(calls[c].resps) = 1
        /\ calls[c].resps[1].kind = "http"
        /\ is_success(calls[c].resps[1].status)
        /\ calls[c].resps[1].body.t = "list"


-----------------------------------------------------------------------------
(* Properties: requests and remote answers *)

\* the number of requests a call of the tool may send
RoundTrips(op) == IF op = "update_document" THEN 2 ELSE 1

Succeeded(resp) == resp.kind = "http" /\ is_success(resp.status)

AnsweredKO(call) ==
    /\ call.resps # << >>
    /\ LET resp == call.resps[Len(call.resps)] IN
        /\ Succeeded(resp)
        /\ resp.ctype = "application/json"
        /\ resp.body.t = "dict"
        /\ Get(resp.body.d, "Res", None) = <<"KO">>
        /\ "Msg" \in DOMAIN resp.body.d

SessionOps == {"login", "logout"}

\* C7: a folder, document or thesaurus call whose request was answered with
\* a 2xx status and a body saying Res = "KO" returns 'Error: <Msg>' with the
\* remote Msg, never a record, a listing or a success message.
C7_LogicalFailure ==
    \A c \in AllSlots :
        (calls[c].pc = "done" /\ calls[c].op \notin SessionOps /\ AnsweredKO(calls[c]))
        => calls[c].result
            = Text(<<"Error: ">> \o calls[c].resps[Len(calls[c].resps)].body.d["Msg"])

\* the second token of the error text of each status category
CategoryOf(status) ==
    CASE status = 401 -> "Unauthorized."
      [] status = 403 -> "Permission denied."
      [] status = 404 -> "Resource not found."
      [] status = 429 -> "Rate limit exceeded."
      [] OTHER -> "API request failed with "

\* C9: a call with complete arguments whose last request was answered with a
\* status outside 2xx returns the error text of that status: 401 unauthorized, 403 permission
\* denied, 404 resource not found, 429 rate limit exceeded, and for a status
\* without a text of its own 'API request failed with status <n>'.
C9_StatusCategory ==
    \A c \in AllSlots :
        LET call == calls[c] IN
        (/\ call.pc = "done"
         /\ ValidArguments(call)
         /\ call.resps # << >>
         /\ call.resps[Len(call.resps)].kind = "http"
         /\ call.resps[Len(call.resps)].status \in {401, 403, 404, 429, 503})
        => LET status == call.resps[Len(call.resps)].status IN
           /\ call.result.fmt = "text"
           /\ Len(call.result.s) >= 2
           /\ call.result.s[1] = "Error: "
           /\ call.result.s[2] = CategoryOf(status)
           /\ status = 503 => call.result.s = <<"Error: ", "API request failed with ", "status ", "503">>


SearchOps == {"search_folders", "search_documents", "search_terms"}

\* the call is a search that has ended on an answer with this status
SearchAnswered(call, status) ==
    /\ call.pc = "done"
    /\ call.op \in SearchOps
    /\ Len(call.resps) = 1
    /\ call.resps[1].kind = "http"
    /\ call.resps[1].status = status

HasMsg(body) == body.t = "dict" /\ "Msg" \in DOMAIN body.d
SaysKO(body) == body.t = "dict" /\ Get(body.d, "Res", None) = <<"KO">>

\* C10 as the spec states it: a search answered 500 with a JSON body that
\* carries Msg returns 'Error: Internal server error - <Msg>'; answered 406
\* with Res = "KO" and Msg it returns 'Error: <Msg>'; when the body is not
\* parseable or carries no Msg it returns the fixed generic text of the status.
C10_MsgOrGeneric ==
    \A c \in AllSlots :
        LET call == calls[c]
            body == call.resps[1].body
        IN  /\ SearchAnswered(call, 500) =>
                call.result = Text(IF HasMsg(body) THEN INTERNAL \o body.d["Msg"] ELSE GENERIC_500)
            /\ SearchAnswered(call, 406) =>
                /\ (SaysKO(body) /\ HasMsg(body)) => call.result = Text(<<"Error: ">> \o body.d["Msg"])
                /\ ~HasMsg(body) => call.result = Text(GENERIC_406)

\* C10 as amended: a search answered 500 with a JSON object that carries Msg
\* returns 'Error: Internal server error - <Msg>'; answered 406 with a JSON
\* object saying Res = "KO" and carrying Msg it returns 'Error: <Msg>'. A
\* body saying Res = "KO" without Msg gives the same texts with the default
\* 'Internal server error' (500) or 'Not Acceptable' (406) in place of Msg.
\* In every other case (a body that is not parseable or not a JSON object, a
\* 500 body with neither Msg nor Res = "KO", a 406 body without Res = "KO")
\* the fixed generic text of the status is returned.
C10_MsgDefaultOrGeneric ==
    \A c \in AllSlots :
        LET call == calls[c]
            body == call.resps[1].body
        IN  /\ SearchAnswered(call, 500) =>
                call.result = Text(
                    IF HasMsg(body) THEN INTERNAL \o body.d["Msg"]
                    ELSE IF SaysKO(body) THEN INTERNAL \o <<"Internal server error">>
                    ELSE GENERIC_500)
            /\ SearchAnswered(call, 406) =>
                call.result = Text(
                    IF SaysKO(body) /\ HasMsg(body) THEN <<"Error: ">> \o body.d["Msg"]
                    ELSE IF SaysKO(body) THEN <<"Error: ", "Not Acceptable">>
                    ELSE GENERIC_406)

\* a search answered 500 with a Msg but no Res has ended
C10_Witness ==
    \E c \in AllSlots :
        /\ SearchAnswered(calls[c], 500)
        /\ HasMsg(calls[c].resps[1].body)
        /\ ~SaysKO(calls[c].resps[1].body)

-----------------------------------------------------------------------------
(* Properties: attribute extraction *)

\* the places of the entries named attr_name in an array of entries
NamedEntries(entries, attr_name) ==
    {i \in 1..Len(entries) : "Name" \in DOMAIN entries[i] /\ entries[i].Name = <<attr_name>>}

\* the first value of the first entry named attr_name, default when that
\* entry has no value
FirstValue(entries, attr_name, default) ==
    LET first == CHOOSE i \in NamedEntries(entries, attr_name) :
                    \A j \in NamedEntries(entries, attr_name) : i <= j
        values == IF "Values" \in DOMAIN entries[first] THEN entries[first].Values ELSE << >>
    IN  IF values = << >> THEN default ELSE values[1]

\* the flat value as text
FlatText(value) == IF value = None THEN <<"None">> ELSE value

\* C8 as the spec states it: extract(r, f, d) is the flat value r[f] when r
\* has the key f; otherwise the first value of the entry named f in r's
\* Attrs array or, failing that, in r's ListAttr array; otherwise d.
C8_AttrsOrListAttr ==
    probe.stage = "output" =>
        LET r == probe.item
            f == probe.attr_name
            Attrs == IF "Attrs" \in DOMAIN r THEN r.Attrs ELSE << >>
            ListAttr == IF "ListAttr" \in DOMAIN r THEN r.ListAttr ELSE << >>
        IN  probe.result = Ret(
                IF f \in DOMAIN r THEN FlatText(r[f])
                ELSE IF NamedEntries(Attrs, f) # {} THEN FirstValue(Attrs, f, probe.default)
                ELSE IF NamedEntries(ListAttr, f) # {} THEN FirstValue(ListAttr, f, probe.default)
                ELSE probe.default)

\* C8 as amended: extract(r, f, d) is the flat value r[f], as text, when r
\* has the key f; otherwise the first value of the first entry named f in
\* r's Attrs array, or d when that entry has no value; otherwise d. The
\* ListAttr array is not consulted.
C8_AttrsOnly ==
    probe.stage = "output" =>
        LET r == probe.item
            f == probe.attr_name
            Attrs == IF "Attrs" \in DOMAIN r THEN r.Attrs ELSE << >>
        IN  probe.result = Ret(
                IF f \in DOMAIN r THEN FlatText(r[f])
                ELSE IF NamedEntries(Attrs, f) # {} THEN FirstValue(Attrs, f, probe.default)
                ELSE probe.default)

\* the field was looked up in a record that names it in ListAttr only
C8_Witness ==
    /\ probe.stage = "output"
    /\ probe.attr_name \notin DOMAIN probe.item
    /\ "Attrs" \notin DOMAIN probe.item
    /\ "ListAttr" \in DOMAIN probe.item
    /\ NamedEntries(probe.item.ListAttr, probe.attr_name) # {}
    /\ probe.result = Ret(probe.default)


-----------------------------------------------------------------------------
(* Properties: truncation *)

\* the report went over the character budget
OverBudget == probe.stage = "returned" /\ len(probe.result) > CHARACTER_LIMIT

\* C11: a rendered report longer than the character budget (25,000) is
\* returned as a string no longer than the report itself, holding the
\* literal text TRUNCATED.
C11_TruncatedNoLonger ==
    OverBudget =>
        /\ len(probe.returned) <= len(probe.result)
        /\ \E i \in 1..Len(probe.returned) : probe.returned[i] = "**TRUNCATED**"


\* the places of the line breaks of a text
Breaks(text) == {i \in 1..Len(text) : text[i] = "\n"}

\* the first k lines of a text, without the line break that ends them
FirstLines(text, k) ==
    IF k = 0 THEN << >>
    ELSE IF Cardinality(Breaks(text)) < k THEN text
    ELSE LET cut == CHOOSE i \in Breaks(text) : Cardinality({j \in Breaks(text) : j <= i}) = k
         IN  SubSeq(text, 1, cut - 1)

-----------------------------------------------------------------------------
(* Properties: the session *)

\* slot c takes the step, and the tool it runs
Acts(c) == calls'[c] # calls[c]
ActingOp(c) == IF calls[c].pc = "idle" THEN calls'[c].op ELSE calls[c].op

\* the answer is a 2xx JSON object with Res = "OK" and a Token
LoginGranted(resp) ==
    /\ Succeeded(resp)
    /\ resp.body.t = "dict"
    /\ Get(resp.body.d, "Res", None) = <<"OK">>
    /\ "Token" \in DOMAIN resp.body.d

\* slot c ends a login on a granting answer
LoginSucceeds(c) ==
    /\ calls[c].op = "login"
    /\ calls[c].pc = "await"
    /\ calls'[c].pc = "done"
    /\ LoginGranted(calls'[c].resps[1])

\* C13: the session token changes in two ways only: a login that succeeds
\* sets it to the token of the answer, and a logout clears it. A step of any
\* other tool, whatever its outcome, leaves the token and the base URL as
\* they were.
C13_TokenFrame ==
    [][/\ _auth_token' # _auth_token =>
            \E c \in AllSlots :
                \/ LoginSucceeds(c) /\ _auth_token' = calls'[c].resps[1].body.d["Token"]
                \/ Acts(c) /\ ActingOp(c) = "logout" /\ _auth_token' = None
       /\ \A c \in AllSlots :
            (Acts(c) /\ ActingOp(c) \notin SessionOps)
            => (_auth_token' = _auth_token /\ _base_url' = _base_url)]_vars

\* a folder, document or term call ended on a 401 or a timeout within a session
C13_Witness ==
    \E c \in AllSlots :
        /\ calls[c].pc = "done"
        /\ calls[c].op \notin SessionOps
        /\ Len(calls[c].resps) = 1
        /\ \/ calls[c].resps[1].kind = "timeout"
           \/ calls[c].resps[1].kind = "http" /\ calls[c].resps[1].status = 401
        /\ Truthy(_auth_token)

\* C14: a login answered {Res: "OK", Token: t} stores exactly t as the
\* session token and returns 'Successfully logged in to OpenProdoc as
\* <username> ...'; a login whose 2xx answer lacks Res = "OK" or lacks Token
\* returns an error string and leaves the token as it was.
C14_LoginStoresToken ==
    [][\A c \in AllSlots :
        (/\ calls[c].op = "login"
         /\ calls[c].pc = "await"
         /\ calls'[c].pc # "await"
         /\ Succeeded(calls'[c].resps[1]))
        => LET resp == calls'[c].resps[1]
               username == IF Truthy(calls[c].params.username)
                           THEN calls[c].params.username ELSE _default_username
           IN  IF LoginGranted(resp)
               THEN /\ _auth_token' = resp.body.d["Token"]
                    /\ calls'[c].pc = "done"
                    /\ calls'[c].result.fmt = "text"
                    /\ SubSeq(calls'[c].result.s, 1, 2)
                        = <<"Successfully logged in to OpenProdoc as ">> \o username
               ELSE /\ _auth_token' = _auth_token
                    /\ calls'[c].pc = "done"
                    /\ calls'[c].result.fmt = "text"
                    /\ calls'[c].result.s[1] = "Error: "]_vars

\* a second login was granted another token than the one the session held
C14_Witness ==
    \E c \in AllSlots :
        /\ calls[c].op = "login"
        /\ calls[c].pc = "done"
        /\ Len(calls[c].resps) = 1
        /\ LoginGranted(calls[c].resps[1])
        /\ _auth_token = TOKEN_B
        /\ calls[c].resps[1].body.d["Token"] = TOKEN_B


\* the token the request of slot c carried in its Authorization header
SentToken(c) == Get(calls[c].sent[1].headers, "Authorization", None)

\* C15: login and logout calls interleave without locking and the last writer
\* wins: a logout that ends clears the token whatever was stored while its
\* request was in flight, the token of a login that succeeded meanwhile
\* included, and a login that succeeds stores its token whatever the other
\* call did meanwhile.
C15_LastWriterWins ==
    [][\A c \in AllSlots :
        /\ (calls[c].op = "logout" /\ calls[c].pc = "await" /\ calls'[c].pc # "await")
            => _auth_token' = None
        /\ LoginSucceeds(c) => _auth_token' = calls'[c].resps[1].body.d["Token"]]_vars

\* a logout sent with one token has ended after a login in the other slot was
\* granted another token: the session holds no token
C15_Witness ==
    \E c, d \in AllSlots :
        /\ calls[c].op = "logout" /\ calls[c].pc = "done" /\ Len(calls[c].sent) = 1
        /\ calls[d].op = "login" /\ calls[d].pc = "done" /\ Len(calls[d].resps) = 1
        /\ LoginGranted(calls[d].resps[1])
        /\ SentToken(c) # None
        /\ SentToken(c) # <<"Bearer ">> \o calls[d].resps[1].body.d["Token"]
        /\ _auth_token = None


-----------------------------------------------------------------------------
(* Properties: identifiers in success messages *)

\* the tools that report the identifier found in Msg
IdOps == {"create_folder", "update_folder", "delete_folder", "upload_document",
          "update_document", "delete_document", "create_term", "update_term", "delete_term"}

\* the last request of the call was answered 2xx with a JSON object, Res = "OK"
AnsweredOK(call) ==
    /\ Len(call.resps) = RoundTrips(call.op)
    /\ LET resp == call.resps[Len(call.resps)] IN
        /\ Succeeded(resp)
        /\ resp.ctype = "application/json"
        /\ resp.body.t = "dict"
        /\ Get(resp.body.d, "Res", None) = <<"OK">>

\* everything after the first "=" of msg
AfterFirstEq(msg) ==
    LET k == CHOOSE i \in 1..Len(msg) : msg[i] = "=" /\ \A j \in 1..(i - 1) : msg[j] # "="
    IN  SubSeq(msg, k + 1, Len(msg))

\* the result gives id as an identifier: a whole *_id value of the JSON
\* object, or in text the rest of a line
ReportsId(result, id) ==
    IF result.fmt = "json"
    THEN /\ result.v.t = "dict"
         /\ \E k \in {"folder_id", "document_id", "term_id"} \cap DOMAIN result.v.d :
                result.v.d[k] = id
    ELSE \E i \in 2..Len(result.s) :
            /\ i + Len(id) - 1 <= Len(result.s)
            /\ SubSeq(result.s, i, i + Len(id) - 1) = id
            /\ (i + Len(id) <= Len(result.s) => result.s[i + Len(id)] = "\n")

\* C16: a create, update or delete of a folder, document or term answered
\* Res = "OK" with a Msg of the form <label>=<id> reports as identifier the
\* whole of Msg after its first "=", also when the identifier holds an "=".
C16_WholeAfterFirstEq ==
    \A c \in AllSlots :
        (/\ calls[c].pc = "done"
         /\ calls[c].op \in IdOps
         /\ AnsweredOK(calls[c])
         /\ HasEq(Get(calls[c].resps[Len(calls[c].resps)].body.d, "Msg", << >>)))
        => ReportsId(calls[c].result,
                     AfterFirstEq(calls[c].resps[Len(calls[c].resps)].body.d["Msg"]))


-----------------------------------------------------------------------------
(* Properties: folder paths *)

\* the call addresses its folder by path alone and has sent its request
SentByPath(call) ==
    /\ call.op \in FolderOps
    /\ call.sent # << >>
    /\ ~Truthy(call.params.folder_id)
    /\ Truthy(call.params.folder_path)

\* C17: get, update, delete, list subfolders and list documents of a folder
\* addressed by path put the path into the ByPath endpoint so that it ends
\* with "/": a path that ends with "/" as it is, any other with one "/"
\* appended.
C17_TrailingSlash ==
    \A c \in AllSlots :
        SentByPath(calls[c]) =>
            LET e == calls[c].sent[1].endpoint
                path == calls[c].params.folder_path
            IN  /\ e[Len(e)] = "/"
                /\ Tail(e) = (IF path[Len(path)] = "/" THEN path ELSE path \o <<"/">>)


-----------------------------------------------------------------------------
(* Properties: updates *)

\* the fields of the metadata of a document update: the key in the metadata,
\* the argument that supplies it and the key of the fetched record that seeds it
MetadataFields ==
    { <<"Title", "title", "Title">>, <<"ACL", "acl", "ACL">>,
      <<"Idparent", "parent_folder_id", "ParentId">>, <<"Type", "document_type", "Type">>,
      <<"VerLabel", "version_label", "VerLabel">>, <<"DocDate", "doc_date", "DocDate">>,
      <<"PDDate", "pd_date", "PDDate">>, <<"PDAuthor", "author", "PDAuthor">>,
      <<"ListAttr", "attributes", "ListAttr">> }

\* the argument of that name was not supplied
NotSupplied(params, name) ==
    IF name = "attributes" THEN params[name] = NoneList ELSE params[name] = None

UpdateKeys(op) ==
    IF op = "update_folder"
    THEN << <<"Name", "name">>, <<"ACL", "acl">>, <<"ListAttr", "attributes">> >>
    ELSE << <<"Name", "name">>, <<"Descrip", "description">>, <<"Lang", "language">>,
            <<"SCN", "scope_note">> >>

\* the names of the supplied arguments among keys, joined with ", "
RECURSIVE SuppliedNames(_, _)
SuppliedNames(params, keys) ==
    IF keys = << >> THEN << >>
    ELSE LET rest == SuppliedNames(params, Tail(keys)) IN
         IF NotSupplied(params, keys[1][2]) THEN rest
         ELSE IF rest = << >> THEN <<keys[1][2]>>
         ELSE <<keys[1][2], ", ">> \o rest

\* the names alone
NamesOnly(joined) == SelectSeq(joined, LAMBDA x : x # ", ")

\* the result lists exactly these fields as updated
ReportsFields(result, joined) ==
    IF result.fmt = "json"
    THEN result.v.t = "dict" /\ result.v.d.updated_fields = NamesOnly(joined)
    ELSE \E i \in 1..Len(result.s) :
            /\ result.s[i] = "- **Updated Fields**: "
            /\ SubSeq(result.s, i + 1, Len(result.s)) = joined

\* C19: the body of a folder update and of a term update holds a key if and
\* only if the caller supplied the argument for it (not None), with the
\* caller's value, and the list of updated fields reported on success names
\* exactly the supplied arguments.
C19_SparseBody ==
    \A c \in AllSlots :
        (calls[c].op \in {"update_folder", "update_term"} /\ calls[c].sent # << >>) =>
            LET params == calls[c].params
                body == calls[c].sent[1].json
                keys == UpdateKeys(calls[c].op)
            IN  /\ DOMAIN body \subseteq {keys[i][1] : i \in 1..Len(keys)}
                /\ \A i \in 1..Len(keys) :
                    IF NotSupplied(params, keys[i][2])
                    THEN keys[i][1] \notin DOMAIN body
                    ELSE keys[i][1] \in DOMAIN body /\ body[keys[i][1]] = params[keys[i][2]]
                /\ (calls[c].pc = "done" /\ AnsweredOK(calls[c]))
                    => ReportsFields(calls[c].result, SuppliedNames(params, keys))

\* a folder update that supplies an empty attribute list and nothing else has
\* succeeded: its body held ListAttr alone
C19_Witness ==
    \E c \in AllSlots :
        /\ calls[c].op = "update_folder"
        /\ calls[c].pc = "done"
        /\ calls[c].sent # << >>
        /\ AnsweredOK(calls[c])
        /\ calls[c].params.name = None
        /\ calls[c].params.attributes = << >>
        /\ DOMAIN calls[c].sent[1].json = {"ListAttr"}


-----------------------------------------------------------------------------
(* Properties: pagination *)

\* the tools that send a pagination window
WindowOps == {"list_subfolders", "list_documents_in_folder", "list_subterms"} \cup SearchOps

\* the window of the request: a listing sends it as query parameters, a search
\* in its JSON body
SentWindow(call) ==
    IF call.op \in SearchOps
    THEN [Initial |-> call.sent[1].json.Initial, Final |-> call.sent[1].json.Final]
    ELSE call.sent[1].params

\* C20: the pagination window a listing or a search sends has initial >= 0
\* and final > initial; a window of the caller with final <= initial is not
\* sent.
C20_WindowOrdered ==
    \A c \in AllSlots :
        (calls[c].op \in WindowOps /\ calls[c].sent # << >>) =>
            /\ SentWindow(calls[c]) = window_params(calls[c].params)
            /\ calls[c].params.initial >= 0
            /\ calls[c].params.final > calls[c].params.initial


-----------------------------------------------------------------------------
(* Properties: document dates *)

\* the call has sent a request that carries a file: an upload, or a document
\* update with a new file
SentWithFile(call) ==
    \/ call.op = "upload_document" /\ Len(call.sent) = 1
    \/ call.op = "update_document" /\ Len(call.sent) = 2 /\ Truthy(call.params.file_path)

\* C21: the metadata of every upload and of every document update with a new
\* file holds a document date that is not empty, the caller's date when the
\* caller gave one (stated here for callers that give a date or none, not
\* the empty string).
C21_DocDate ==
    \A c \in AllSlots :
        (SentWithFile(calls[c]) /\ calls[c].params.doc_date # << >>) =>
            LET metadata == calls[c].sent[Len(calls[c].sent)].data.Metadata IN
            /\ metadata.DocDate # << >>
            /\ calls[c].params.doc_date # None => metadata.DocDate = calls[c].params.doc_date


-----------------------------------------------------------------------------
(* Properties: the parent of a new folder *)

\* the call is a folder creation that has sent its request
SentCreateFolder(call) == call.op = "create_folder" /\ call.sent # << >>

\* C22: a folder creation with neither parent_id nor parent_path sends
\* Idparent = "RootFolder" and an empty PathParent.
C22_RootDefault ==
    \A c \in AllSlots :
        (/\ SentCreateFolder(calls[c])
         /\ ~Truthy(calls[c].params.parent_id)
         /\ ~Truthy(calls[c].params.parent_path))
        => /\ calls[c].sent[1].json.Idparent = <<"RootFolder">>
           /\ calls[c].sent[1].json.PathParent = << >>

\* a folder creation without a parent was sent with the root as parent
C22_Witness ==
    \E c \in AllSlots :
        /\ SentCreateFolder(calls[c])
        /\ calls[c].params.parent_id = None
        /\ calls[c].params.parent_path = None
        /\ calls[c].sent[1].json.Idparent = <<"RootFolder">>


\* C30: the body of every folder creation has exactly one of Idparent and
\* PathParent non-empty: parent_id when it is supplied, with an empty
\* PathParent, also when parent_path is supplied too; parent_path only when
\* parent_id is not supplied; the root otherwise.
C30_OneParent ==
    \A c \in AllSlots :
        SentCreateFolder(calls[c]) =>
            LET body == calls[c].sent[1].json
                parent_id == calls[c].params.parent_id
                parent_path == calls[c].params.parent_path
            IN  /\ (body.Idparent # << >>) # (body.PathParent # << >>)
                /\ Truthy(parent_id) => body.Idparent = parent_id /\ body.PathParent = << >>
                /\ (~Truthy(parent_id) /\ Truthy(parent_path))
                    => body.PathParent = parent_path /\ body.Idparent = << >>
                /\ body.PathParent # << >> => ~Truthy(parent_id)

\* a folder creation given both parent_id and parent_path was sent
C30_Witness ==
    \E c \in AllSlots :
        /\ SentCreateFolder(calls[c])
        /\ Truthy(calls[c].params.parent_id)
        /\ Truthy(calls[c].params.parent_path)
        /\ calls[c].sent[1].json.PathParent = << >>


-----------------------------------------------------------------------------
(* Properties: structured listings *)

\* the key of the items in the structured result of a listing or a search
ItemsKey(op) ==
    CASE op \in {"list_subfolders", "search_folders"} -> "folders"
      [] op \in {"list_documents_in_folder", "search_documents"} -> "documents"
      [] OTHER -> "terms"

\* a listing or a search in JSON mode has ended on a 2xx answer that is a
\* JSON array
ListedInJson(call) ==
    /\ call.pc = "done"
    /\ call.op \in WindowOps
    /\ call.params.response_format = JSON
    /\ Len(call.resps) = 1
    /\ Succeeded(call.resps[1])
    /\ call.resps[1].ctype = "application/json"
    /\ call.resps[1].body.t = "list"

\* the result is the items, unchanged, with their count and the window of
\* the caller
Wrapped(call, items) ==
    /\ call.result.fmt = "json"
    /\ call.result.v.t = "dict"
    /\ {"count", "initial", "final", ItemsKey(call.op)} \subseteq DOMAIN call.result.v.d
    /\ call.result.v.d.count = Len(items)
    /\ call.result.v.d.initial = call.params.initial
    /\ call.result.v.d.final = call.params.final
    /\ call.result.v.d[ItemsKey(call.op)] = items

\* C23 as the spec states it: in JSON mode every listing and every search
\* returns the items of the remote array unchanged, with count, initial and
\* final, also when the array is empty.
C23_AlwaysWrapped ==
    \A c \in AllSlots :
        ListedInJson(calls[c]) => Wrapped(calls[c], calls[c].resps[1].body.l)

\* what a search says when it finds nothing
NothingFound(op) ==
    CASE op = "search_folders" -> <<"No folders found matching your query.">>
      [] op = "search_documents" -> <<"No documents found matching your query.">>
      [] OTHER -> <<"No terms found matching your query.">>

\* C23 as amended: in JSON mode every listing returns the items of the remote
\* array unchanged, with count, initial and final, also when the array is
\* empty; every search does so when the array holds an item, and returns the
\* plain text 'No <kind> found matching your query.' when it is empty.
C23_WrappedUnlessNothingFound ==
    \A c \in AllSlots :
        ListedInJson(calls[c]) =>
            IF calls[c].op \in SearchOps /\ calls[c].resps[1].body.l = << >>
            THEN calls[c].result = Text(NothingFound(calls[c].op))
            ELSE Wrapped(calls[c], calls[c].resps[1].body.l)

\* a search for folders in JSON mode was answered with an empty array
C23_Witness ==
    \E c \in AllSlots :
        /\ ListedInJson(calls[c])
        /\ calls[c].op = "search_folders"
        /\ calls[c].resps[1].body.l = << >>
        /\ calls[c].result.fmt = "text"


-----------------------------------------------------------------------------
(* Properties: download *)

\* the transport classified the answer as binary: 2xx, no JSON content type
ClassifiedBinary(resp) == Succeeded(resp) /\ resp.ctype # "application/json"

\* slot c ends a download on an answer
DownloadEnds(c) ==
    /\ calls[c].op = "download_document"
    /\ calls[c].pc = "await"
    /\ calls'[c].pc # "await"

\* C24: a download writes the local file only when the answer was classified
\* as binary; on a JSON answer, a status outside 2xx or a timeout it returns
\* an error string and writes no file.
C24_WritesOnlyBinary ==
    [][/\ fs' # fs => \E c \in AllSlots : DownloadEnds(c) /\ ClassifiedBinary(calls'[c].resps[1])
       /\ \A c \in AllSlots :
            (DownloadEnds(c) /\ ~ClassifiedBinary(calls'[c].resps[1]))
            => /\ fs' = fs
               /\ calls'[c].pc = "done"
               /\ calls'[c].result.fmt = "text"
               /\ calls'[c].result.s[1] = "Error: "]_vars


-----------------------------------------------------------------------------
(* Properties: the token and the requests *)

\* slot c sends a request in this step
Sends(c) == Len(calls'[c].sent) > Len(calls[c].sent)

\* the request slot c sends in this step
Sending(c) == calls'[c].sent[Len(calls'[c].sent)]

\* C25: in every tool but login the token check comes before the request: a
\* request is sent only while the session holds a token, and carries it; a
\* tool that reaches its request without a token sends nothing.
C25_TokenBeforeRequest ==
    [][\A c \in AllSlots :
        (Sends(c) /\ calls'[c].op # "login")
        => /\ Truthy(_auth_token)
           /\ "Authorization" \in DOMAIN Sending(c).headers
           /\ Sending(c).headers["Authorization"] = <<"Bearer ">> \o _auth_token]_vars

\* a document update was called without a token and ended with no request
C25_Witness ==
    \E c \in AllSlots :
        /\ calls[c].op = "update_document"
        /\ calls[c].pc = "done"
        /\ calls[c].sent = << >>
        /\ ~Truthy(_auth_token)


-----------------------------------------------------------------------------
(* Properties: a login that fails *)

\* the login of slot c has ended without being granted a token: credentials
\* missing, a status outside 2xx, a timeout, or an answer without Res = "OK"
\* and Token
LoginFailed(call) ==
    /\ call.op = "login"
    /\ call.pc \in {"done", "fault"}
    /\ ~(Len(call.resps) = 1 /\ LoginGranted(call.resps[1]))

\* C26: a login that fails leaves the session as it was before the call: the
\* token that was stored and the base URL that was configured.
C26_FailedLoginFrame ==
    \A c \in AllSlots :
        LoginFailed(calls[c]) =>
            /\ _auth_token = probe._auth_token
            /\ _base_url = probe._base_url


-----------------------------------------------------------------------------
(* Properties: the token and the base URL *)

\* C27: over any sequence of logins, logouts and authenticated calls, a
\* request that carries a bearer token goes to the base URL whose login
\* answer issued that token.
C27_TokenStaysWithIssuer ==
    \A c \in AllSlots :
        \A i \in 1..Len(calls[c].sent) :
            "Authorization" \in DOMAIN calls[c].sent[i].headers
            => calls[c].sent[i].headers["Authorization"]
                = <<"Bearer ">> \o TokenOf(calls[c].sent[i].base)


-----------------------------------------------------------------------------
(* Properties: the fetch of a document update *)

\* the fetch failed, or returned an empty record: a timeout, a connection
\* error, a status outside 2xx, a body that is not JSON, or the object {}
FetchFailed(resp) ==
    \/ ~Succeeded(resp)
    \/ resp.ctype = "application/json" /\ resp.body.t = "bad"
    \/ resp.ctype = "application/json" /\ resp.body = Obj(EmptyDict)

\* the call has ended with an error string
EndedInError(call) ==
    /\ call.pc = "done"
    /\ call.result.fmt = "text"
    /\ call.result.s # << >>
    /\ call.result.s[1] = "Error: "

\* C28: when the fetch of a document update fails (no token, a status
\* outside 2xx, a timeout) or returns an empty record, no PUT is sent and the
\* call returns an error string.
C28_NoUpdateAfterFailedFetch ==
    \A c \in AllSlots :
        calls[c].op = "update_document" =>
            /\ calls[c].sent = << >> => EndedInError(calls[c])
            /\ (calls[c].resps # << >> /\ FetchFailed(calls[c].resps[1]))
                => Len(calls[c].sent) = 1 /\ EndedInError(calls[c])

\* a document update has ended after its fetch timed out
C28_Witness ==
    \E c \in AllSlots :
        /\ calls[c].op = "update_document"
        /\ calls[c].pc = "done"
        /\ Len(calls[c].sent) = 1
        /\ Len(calls[c].resps) = 1
        /\ calls[c].resps[1].kind = "timeout"

-----------------------------------------------------------------------------
(* The two requests of a document update *)

\* C29: the fetch and the PUT of one document update carry the same bearer
\* token, whatever login or logout calls of other invocations run between them
C29_SameToken ==
    \A c \in AllSlots :
        (calls[c].op = "update_document" /\ Len(calls[c].sent) = 2) =>
            calls[c].sent[1].headers["Authorization"] = calls[c].sent[2].headers["Authorization"]

====
